---- MODULE Spec2Model ----
(***************************************************************************)
(* A model of the Network engine of noise (network/network.go): the peer   *)
(* registry and Client, the per-connection write pipeline, Accept and      *)
(* dispatchMessage, Bootstrap/Broadcast between nodes, and shutdown.       *)
(*                                                                         *)
(* The module holds several specifications over one set of variables; a    *)
(* specification leaves the variables of the other parts unchanged.        *)
(*   SpecClient : racing Client(address) calls on one node                 *)
(*   SpecWrite  : racing Write / BroadcastByAddresses calls and the flush  *)
(*   SpecAccept : Accept on an accepted connection, the per-message tasks, *)
(*                the ordered executor, dispatchMessage, plugin fan-out    *)
(*   SpecDispatch : SpecAccept from the point where the connection is      *)
(*                initialised and its first envelope awaits dispatch       *)
(*   SpecNet    : the nodes of the test harness: Listen, Bootstrap,        *)
(*                Broadcast, BroadcastByAddresses (SpecNetFair: scheduled) *)
(*   SpecClose  : Close against Listen, the listener watcher and the flush *)
(*                loop (SpecCloseFair: scheduled)                          *)
(*   SpecCast   : one Broadcast / BroadcastByAddresses / BroadcastByIDs    *)
(*                call whose targets are in part not connected             *)
(*   SpecReaccept : SpecAccept with a further connection accepted once the *)
(*                previous Accept is over                                  *)
(*   SpecPool   : dispatchMessage with plugins whose Receive may fail      *)
(*   SpecRandom : one BroadcastRandomly call                               *)
(***************************************************************************)
EXTENDS Integers, Sequences, FiniteSets, TLC

(***************************************************************************)
(* Bounds of the model.                                                    *)
(***************************************************************************)
\* Number of tasks that call Client concurrently.
NumCallers == 2
\* Number of PeerClient objects createPeerClient may allocate in a run.
MaxClients == 3
\* Number of connections the listener accepts.
NumConns == 1
\* Number of frames read from the accepted connections in a run.
MaxMsgs == 2
\* Number of Request calls (request nonces) made in a run.
MaxRequests == 1
\* Number of tasks that send concurrently (Tell, BroadcastByAddresses).
NumWriters == 2
\* Longest address list passed to BroadcastByAddresses.
MaxTargets == 2

(***************************************************************************)
(* Addresses.  An address is <<host, port>>; the scheme is fixed.          *)
(***************************************************************************)
Hosts == {"localhost", "127.0.0.1"}
Ports == {3000, 3001, 3002}
\* A string ParseAddress rejects.
InvalidAddress == <<"", 0>>
Spellings == (Hosts \X Ports) \cup {InvalidAddress}

\* Host resolution done by ToUnifiedAddress: names become IP literals.
Resolve(h) == IF h = "localhost" THEN "127.0.0.1" ELSE h

\* ToUnifiedAddress(address): the canonical spelling, or an error.
ToUnifiedAddress(a) ==
    IF a = InvalidAddress
    THEN [err |-> TRUE, address |-> InvalidAddress]
    ELSE [err |-> FALSE, address |-> <<Resolve(a[1]), a[2]>>]

\* n.Address: the node's own address, stored canonical by the builder.
Address == <<"127.0.0.1", 3000>>

CanonAddrs == {ToUnifiedAddress(a).address : a \in Hosts \X Ports}

(***************************************************************************)
(* State.                                                                  *)
(***************************************************************************)
VARIABLES
    \* ---- one node: registry, sessions, PeerClients ----
    Peers,          \* n.Peers: canonical address -> PeerClient id
    Connections,    \* n.Connections: address -> ConnState
    nextClient,     \* next PeerClient id createPeerClient hands out
    outgoingReady,  \* per PeerClient: number of close(outgoingReady) done
    \* ---- tasks running Client ----
    pc,             \* per task: position in Client
    addr,           \* per task: the unified address (local `address`)
    clientNew,      \* per task: the PeerClient createPeerClient returned
    cl,             \* per task: the PeerClient LoadOrStore returned
    \* ---- history (not program state) ----
    returned,       \* <<address, client>> of every Client call that returned a client
    refused,        \* the address strings Client refused as the node's own
    dialed,         \* <<address, client, ok>> of every Dial made by Client
    \* ---- tasks running BroadcastByAddresses / Write ----
    wpc,            \* per task: position in BroadcastByAddresses / Write
    wmsg,           \* per task: the signed *protobuf.Message (shared by its Writes)
    wtargets,       \* per task: the addresses still to be written to
    wire,           \* per address: the frames flushed to the socket, in order
    \* ---- history (not program state) ----
    wsigned,        \* per task: number of PrepareMessage calls made
    wfailed,        \* per task: the targets whose Write returned an error
    wop,            \* per task: the call it runs ("": none)
    wlist,          \* per task: the targets the call started with, in order
    wtried,         \* per task: the targets a send was attempted to, in order
    \* ---- Accept: per accepted connection ----
    rpc,            \* read loop: "reading" or "closed" (after the deferred cleanup)
    rerr,           \* the error receiveMessage returned that ended the loop ("": none)
    received,       \* the envelopes receiveMessage returned, in order
    once,           \* clientInit (sync.Once): "new", "running", "done"
    acClient,       \* Accept's local `client` (NoClient: nil)
    acOutgoing,     \* Accept's local `outgoing` (0: nil)
    \* ---- Accept: per message goroutine ----
    gpc,            \* position in the goroutine of lines 373-406
    gerr,           \* the iteration's `err` as the goroutine sees it
    outcome,        \* history: what became of the message
    \* ---- per PeerClient ----
    clientID,       \* client.ID: the learned sender key (0: nil)
    incomingReady,  \* number of close(incomingReady) done
    closed,         \* number of Close() calls made on the client
    execQ,          \* the ordered executor's FIFO of submitted tasks
    wk,             \* the executor's worker: idle, or blocked delivering a reply
    \* ---- request/reply correlation ----
    Requests,       \* <<client, nonce>> registered in client.Requests
    reqClosed,      \* nonces whose RequestState.closeSignal is closed
    slot,           \* per nonce: number of messages in RequestState.data
    nextReq,        \* next request nonce
    delivered,      \* history: <<nonce, message>> sent into a slot
    \* ---- plugin fan-out ----
    pool,           \* contextPool: the PluginContexts at rest
    ctxs,           \* per PluginContext: its fields
    fpc,            \* per message: position of the fan-out goroutine
    fctx,           \* per message: the PluginContext its fan-out holds
    perr,           \* history: per message, the Receive calls that returned an error
    rnd,            \* the BroadcastRandomly call: its position and locals
    crashed,        \* "" or the panic that ended the process
    \* ---- several nodes (the test's harness): per node ----
    Listening,      \* n.Listening is closed
    netPeers,       \* n.Peers: canonical address -> PeerClient
    netConns,       \* n.Connections: address -> ConnState
    netLink,        \* per connection <<from, to>>: the frames flushed, unread
    netAccept,      \* per connection <<from, to>>: the state of its Accept
    netQ,           \* per <<node, peer>>: FIFO of the peer's ordered executor
    inbox,          \* per node: what its plugins' Receive was called with
    bpc,            \* per node: position in Bootstrap
    cast,           \* the bootstrap node's Broadcast / BroadcastByAddresses call
    netCrashed,     \* "" or the panic that ended a node's process
    \* ---- shutdown: kill, flushLoop, Listen, Close ----
    kill,           \* number of close(n.kill) done
    flushPc,        \* flushLoop: "running" or "returned"
    listenPc,       \* position in Listen
    listener,       \* the net.Listener: "none", "open", "closed"
    watcher,        \* the goroutine of lines 209-215: "none", "waiting", "done"
    accepted,       \* number of connections listener.Accept returned
    closePc,        \* position in Close
    visited,        \* the PeerClients Close's Range has been called back with
    started,        \* the plugins whose Startup was called, in call order
    cleaned         \* the plugins whose Cleanup was called, in call order

\* The fields of Client's tasks and the registry, without Connections.
clientOther == <<Peers, nextClient, outgoingReady,
                 pc, addr, clientNew, cl, returned, refused, dialed>>
clientVars == <<Connections, clientOther>>
castVars == <<wop, wlist, wtried>>
writeVars == <<wpc, wmsg, wtargets, wire, wsigned, wfailed, castVars>>

readVars == <<rpc, rerr, received, once, acClient, acOutgoing>>
gorVars == <<gpc, gerr, outcome>>
peerVars == <<clientID, incomingReady, closed>>
execVars == <<execQ, wk>>
reqVars == <<Requests, reqClosed, slot, nextReq, delivered>>
plugVars == <<pool, ctxs, fpc, fctx, perr>>
acceptVars == <<readVars, gorVars, peerVars, execVars, reqVars, plugVars, crashed>>

netVars == <<Listening, netPeers, netConns, netLink, netAccept, netQ, inbox,
             bpc, cast, netCrashed>>
closeVars == <<kill, flushPc, listenPc, listener, watcher, accepted, closePc,
               visited, started, cleaned>>

vars == <<clientVars, writeVars, acceptVars, netVars, closeVars, rnd>>

\* Tasks that run Client: callers of the API, <<0, t>>, and the per-message
\* goroutines of Accept, <<x, k>>: message k of accepted connection x.
Callers == {<<0, t>> : t \in 1..NumCallers}
Conns == 1..NumConns
Goroutines == Conns \X (1..MaxMsgs)
Tasks == Callers \cup Goroutines
ClientIds == 1..MaxClients
NoClient == 0

\* The nodes of the test: node 0 is te.bootstrapNode, the others te.nodes.
NumNodes == 3
Nodes == 0..(NumNodes - 1)
BootstrapNode == 0
OtherNodes == Nodes \ {BootstrapNode}
\* A connection is named by its two ends, <<dialing node, listening node>>.
Links == {x \in Nodes \X Nodes : x[1] # x[2]}

(***************************************************************************)
(* sync.Map operations.                                                    *)
(***************************************************************************)
MapLoadOrStore(m, k, v) ==
    IF k \in DOMAIN m
    THEN [actual |-> m[k], loaded |-> TRUE, map |-> m]
    ELSE [actual |-> v, loaded |-> FALSE, map |-> m @@ (k :> v)]

MapStore(m, k, v) == [x \in DOMAIN m \cup {k} |-> IF x = k THEN v ELSE m[x]]

MapDelete(m, k) == [x \in DOMAIN m \ {k} |-> m[x]]

EmptyMap == << >>

(***************************************************************************)
(* Network.Client, one step per access to shared state.                    *)
(***************************************************************************)
\* Where a task is after Client returned: an API caller is at rest again
\* (its result is in the history); a goroutine of Accept holds the result.
Leave(t) == IF t \in Callers THEN "idle" ELSE "returned"

\* Leaving Client: the locals die; a returned client is recorded.
Return(t, c) ==
    /\ returned' = IF c = NoClient THEN returned ELSE returned \cup {<<addr[t], c>>}
    /\ pc' = [pc EXCEPT ![t] = Leave(t)]
    /\ addr' = [addr EXCEPT ![t] = InvalidAddress]
    /\ clientNew' = [clientNew EXCEPT ![t] = NoClient]
    /\ cl' = [cl EXCEPT ![t] = IF t \in Callers THEN NoClient ELSE c]

\* The self-dial test of Client, on the unified address.
IsSelfMutant(address) == FALSE
IsSelf(address) == address = Address

\* Lines 237-249: unify the address, refuse self, createPeerClient.
ClientEnter(t, a) ==
    /\ pc[t] = "idle"
    /\ LET u == ToUnifiedAddress(a) IN
        IF u.err
        THEN /\ pc' = [pc EXCEPT ![t] = Leave(t)]
             /\ UNCHANGED <<addr, clientNew, nextClient, refused>>
        ELSE IF IsSelf(u.address)
        THEN /\ refused' = refused \cup {a}
             /\ pc' = [pc EXCEPT ![t] = Leave(t)]
             /\ UNCHANGED <<addr, clientNew, nextClient>>
        ELSE /\ nextClient <= MaxClients
             /\ addr' = [addr EXCEPT ![t] = u.address]
             /\ clientNew' = [clientNew EXCEPT ![t] = nextClient]
             /\ nextClient' = nextClient + 1
             /\ pc' = [pc EXCEPT ![t] = "loadOrStore"]
             /\ UNCHANGED refused
    /\ UNCHANGED <<Peers, Connections, outgoingReady, cl, returned, dialed>>

\* Line 251: c, exists := n.Peers.LoadOrStore(address, clientNew).
ClientLoadOrStore(t) ==
    /\ pc[t] = "loadOrStore"
    /\ LET r == MapLoadOrStore(Peers, addr[t], clientNew[t]) IN
        /\ Peers' = r.map
        /\ cl' = [cl EXCEPT ![t] = r.actual]
        /\ pc' = [pc EXCEPT ![t] = IF r.loaded THEN "outgoingReady" ELSE "dial"]
    /\ UNCHANGED <<Connections, nextClient, outgoingReady, addr, clientNew,
                   returned, refused, dialed>>

\* client.OutgoingReady(): true once the gate is closed.
GateClosed(g, c) == g[c] > 0

\* Lines 252-260: the entry existed; wait for its outgoingReady gate, which
\* either is closed (return the client) or times out (return an error).
ClientOutgoingReady(t) ==
    /\ pc[t] = "outgoingReady"
    /\ IF GateClosed(outgoingReady, cl[t])
       THEN Return(t, cl[t])
       ELSE Return(t, NoClient)
    /\ UNCHANGED <<Peers, Connections, nextClient, outgoingReady, refused, dialed>>

\* Line 267: conn, err := n.Dial(address); the transport decides the outcome.
ClientDial(t, ok) ==
    /\ pc[t] = "dial"
    /\ dialed' = dialed \cup {<<addr[t], cl[t], ok>>}
    /\ pc' = [pc EXCEPT ![t] = IF ok THEN "store" ELSE "rollback"]
    /\ UNCHANGED <<Peers, Connections, nextClient, outgoingReady, addr,
                   clientNew, cl, returned, refused>>

\* Line 269: n.Peers.Delete(address).
PeersDeleteMutant(m, k) == m
PeersDelete(m, k) == MapDelete(m, k)

ClientRollback(t) ==
    /\ pc[t] = "rollback"
    /\ Peers' = PeersDelete(Peers, addr[t])
    /\ pc' = [pc EXCEPT ![t] = "deferErr"]
    /\ UNCHANGED <<Connections, nextClient, outgoingReady, addr, clientNew,
                   cl, returned, refused, dialed>>

\* The ConnState Client stores: the dialled conn (named after the client
\* that dialled it), an empty buffered writer, messageNonce 0.
NewConnState(c) == [conn |-> c, messageNonce |-> 0, writer |-> << >>]

\* Lines 273-279: n.Connections.Store(address, &ConnState{...}); client.Init().
ClientStore(t) ==
    /\ pc[t] = "store"
    /\ Connections' = MapStore(Connections, addr[t], NewConnState(cl[t]))
    /\ pc' = [pc EXCEPT ![t] = "deferOk"]
    /\ UNCHANGED <<Peers, nextClient, outgoingReady, addr, clientNew, cl,
                   returned, refused, dialed>>

\* Lines 263-265, 270, 281: the deferred close(client.outgoingReady), then
\* the return of (nil, err) or (client, nil).
ClientReturn(t) ==
    /\ pc[t] \in {"deferErr", "deferOk"}
    /\ outgoingReady' = [outgoingReady EXCEPT ![cl[t]] = @ + 1]
    /\ IF pc[t] = "deferOk"
       THEN Return(t, cl[t])
       ELSE Return(t, NoClient)
    /\ UNCHANGED <<Peers, Connections, nextClient, refused, dialed>>

ClientStep(t) ==
    \/ ClientLoadOrStore(t)
    \/ ClientOutgoingReady(t)
    \/ \E ok \in BOOLEAN : ClientDial(t, ok)
    \/ ClientRollback(t)
    \/ ClientStore(t)
    \/ ClientReturn(t)

(***************************************************************************)
(* SpecClient: NumCallers tasks call Client with any spelling, repeatedly. *)
(***************************************************************************)
\* No BroadcastRandomly call made yet.
IdleRandom == [pc |-> "idle", payload |-> "", K |-> 0, order |-> << >>,
               addresses |-> << >>]

\* The tasks of the write pipeline, at rest.
IdleWrite ==
    /\ wpc = [w \in 1..NumWriters |-> "idle"]
    /\ wmsg = [w \in 1..NumWriters |-> [payload |-> "", nonce |-> 0]]
    /\ wtargets = [w \in 1..NumWriters |-> << >>]
    /\ wire = EmptyMap
    /\ wsigned = [w \in 1..NumWriters |-> 0]
    /\ wfailed = [w \in 1..NumWriters |-> {}]
    /\ wop = [w \in 1..NumWriters |-> ""]
    /\ wlist = [w \in 1..NumWriters |-> << >>]
    /\ wtried = [w \in 1..NumWriters |-> << >>]
    /\ rnd = IdleRandom

\* The plugins of the test's nodes, in registration order.
Plugins == <<"discovery", "mailbox">>
NumPlugins == Len(Plugins)
CtxIds == 1..(NumConns * MaxMsgs)
NoMessage == <<0, 0>>

\* No connection accepted yet / no message in flight.
IdleAccept ==
    /\ rpc = [x \in Conns |-> "reading"]
    /\ rerr = [x \in Conns |-> ""]
    /\ received = [x \in Conns |-> << >>]
    /\ once = [x \in Conns |-> "new"]
    /\ acClient = [x \in Conns |-> NoClient]
    /\ acOutgoing = [x \in Conns |-> 0]
    /\ gpc = [g \in Goroutines |-> "none"]
    /\ gerr = [g \in Goroutines |-> FALSE]
    /\ outcome = [g \in Goroutines |-> ""]
    /\ clientID = [c \in ClientIds |-> 0]
    /\ incomingReady = [c \in ClientIds |-> 0]
    /\ closed = [c \in ClientIds |-> 0]
    /\ execQ = [c \in ClientIds |-> << >>]
    /\ wk = [c \in ClientIds |-> [st |-> "idle", g |-> NoMessage, n |-> 0]]
    /\ Requests = {}
    /\ reqClosed = {}
    /\ slot = [n \in 1..MaxRequests |-> 0]
    /\ nextReq = 1
    /\ delivered = {}
    /\ pool = {}
    /\ ctxs = [i \in CtxIds |-> [client |-> NoClient, message |-> NoMessage, nonce |-> 0]]
    /\ fpc = [g \in Goroutines |-> 0]
    /\ fctx = [g \in Goroutines |-> 0]
    /\ perr = [g \in Goroutines |-> 0]
    /\ crashed = ""

\* The nodes of the harness before any of them runs.
IdleCast == [pc |-> "idle", op |-> "", payload |-> "", range |-> {},
             list |-> << >>, targets |-> << >>, signed |-> 0]
IdleLink == [open |-> FALSE, once |-> FALSE, client |-> InvalidAddress]
IdleNet ==
    /\ Listening = [n \in Nodes |-> FALSE]
    /\ netPeers = [n \in Nodes |-> EmptyMap]
    /\ netConns = [n \in Nodes |-> EmptyMap]
    /\ netLink = [x \in Links |-> << >>]
    /\ netAccept = [x \in Links |-> IdleLink]
    /\ netQ = [x \in Links |-> << >>]
    /\ inbox = [n \in Nodes |-> << >>]
    /\ bpc = [n \in Nodes |-> "idle"]
    /\ cast = IdleCast
    /\ netCrashed = ""

\* A network after Init(): the flush loop runs; Listen and Close have not
\* been called.
IdleClose ==
    /\ kill = 0
    /\ flushPc = "running"
    /\ listenPc = "none"
    /\ listener = "none"
    /\ watcher = "none"
    /\ accepted = 0
    /\ closePc = "idle"
    /\ visited = {}
    /\ started = << >>
    /\ cleaned = << >>

\* What a specification of one part leaves alone.
Elsewhere == UNCHANGED <<netVars, closeVars, rnd>>

InitClient ==
    /\ IdleWrite
    /\ IdleAccept
    /\ IdleNet
    /\ IdleClose
    /\ Peers = EmptyMap
    /\ Connections = EmptyMap
    /\ nextClient = 1
    /\ outgoingReady = [c \in ClientIds |-> 0]
    /\ pc = [t \in Tasks |-> "idle"]
    /\ addr = [t \in Tasks |-> InvalidAddress]
    /\ clientNew = [t \in Tasks |-> NoClient]
    /\ cl = [t \in Tasks |-> NoClient]
    /\ returned = {}
    /\ refused = {}
    /\ dialed = {}

CallerEnter == \E t \in Callers, a \in Spellings : ClientEnter(t, a)
CallerStep == \E t \in Callers : ClientStep(t)

NextClient ==
    (CallerEnter \/ CallerStep) /\ UNCHANGED <<writeVars, acceptVars>> /\ Elsewhere

SpecClient == InitClient /\ [][NextClient]_vars

MapRange(m) == {m[k] : k \in DOMAIN m}

(***************************************************************************)
(* The write pipeline: PrepareMessage, Write, sendMessage, the flush loop. *)
(***************************************************************************)
Writers == 1..NumWriters
\* Payloads sent: a discovery Ping and the test's TestMessage.
Payloads == {"Ping", "TestMessage"}
RemoteAddrs == CanonAddrs \ {Address}

\* The address lists a caller may pass: every sequence of 1..MaxTargets
\* remote addresses, repetitions included.
TargetLists == UNION {[1..k -> RemoteAddrs] : k \in 1..MaxTargets}

\* PrepareMessage: the signed envelope; MessageNonce is still unset.
PrepareMessage(p) == [payload |-> p, nonce |-> 0]

\* A call begins on task w: its targets, the envelope it sends.
CallStart(w, op, p, targets, signs) ==
    /\ wpc[w] = "idle"
    /\ wsigned[w] = 0
    /\ wop' = [wop EXCEPT ![w] = op]
    /\ wmsg' = [wmsg EXCEPT ![w] = PrepareMessage(p)]
    /\ wsigned' = [wsigned EXCEPT ![w] = signs]
    /\ wtargets' = [wtargets EXCEPT ![w] = targets]
    /\ wlist' = [wlist EXCEPT ![w] = targets]
    /\ wpc' = [wpc EXCEPT ![w] = "load"]
    /\ UNCHANGED <<wire, wfailed, wtried, clientVars, acceptVars>>

\* Lines 483-487: signed, err := n.PrepareMessage(message), once per call.
BroadcastByAddressesStart(w, p, targets) ==
    CallStart(w, "BroadcastByAddresses", p, targets, 1)

\* Lines 495-499: BroadcastByIDs(message, ids...): one PrepareMessage; the
\* loop of lines 501-503 writes to id.Address.
IDAddresses(ids) == [k \in DOMAIN ids |-> ids[k].address]
BroadcastByIDsStart(w, p, ids) ==
    CallStart(w, "BroadcastByIDs", p, IDAddresses(ids), 1)

\* The orders in which a Range over the sync.Map m may call back.
RangeOrders(m) ==
    {o \in [1..Cardinality(DOMAIN m) -> DOMAIN m] :
        \A i, j \in DOMAIN o : i # j => o[i] # o[j]}

\* Lines 469-471: Broadcast(message): n.Peers.Range calls back for the
\* entries in some order; each callback runs client.Tell(message), which
\* prepares, signs and writes to the client's address.
BroadcastStart(w, p, order) ==
    CallStart(w, "Broadcast", p, [k \in DOMAIN order |-> order[k]], 0)

\* Line 478 (the callback returns true) and lines 489-491, 501-503 (the
\* result of Write is not looked at): the call goes on after a send,
\* whether it failed or not.
ContinuesMutant(failed) == ~failed
Continues(failed) == TRUE

\* After a send returned: the loop goes to the next target.
NextTarget(w, failed) ==
    /\ wtargets' = [wtargets EXCEPT ![w] =
                       IF Continues(failed) THEN Tail(@) ELSE << >>]
    /\ wfailed' = [wfailed EXCEPT ![w] = IF failed THEN @ \cup {Head(wtargets[w])} ELSE @]
    /\ wtried' = [wtried EXCEPT ![w] = Append(@, Head(wtargets[w]))]
    /\ wpc' = [wpc EXCEPT ![w] = "load"]

\* client.Tell signs the message for its target; the addressed calls have
\* signed before their loop.
SignsPerTarget(op) == IF op = "Broadcast" THEN 1 ELSE 0

\* Lines 489-455 (471-473 for Broadcast): next target; in Write,
\* s, exists := n.Connections.Load(address).
WriteLoad(w) ==
    /\ wpc[w] = "load"
    /\ IF wtargets[w] = << >>
       THEN /\ wpc' = [wpc EXCEPT ![w] = "done"]
            /\ UNCHANGED <<wtargets, wfailed, wtried, wsigned>>
       ELSE /\ wsigned' = [wsigned EXCEPT ![w] = @ + SignsPerTarget(wop[w])]
            /\ IF Head(wtargets[w]) \in DOMAIN Connections
               THEN /\ wpc' = [wpc EXCEPT ![w] = "nonce"]
                    /\ UNCHANGED <<wtargets, wfailed, wtried>>
               ELSE NextTarget(w, TRUE)
    /\ UNCHANGED <<wmsg, wire, wop, wlist, clientVars, acceptVars>>

\* Line 457: message.MessageNonce = atomic.AddUint64(&state.messageNonce, 1).
WriteNonce(w) ==
    /\ wpc[w] = "nonce"
    /\ LET a == Head(wtargets[w])
           n == Connections[a].messageNonce + 1 IN
        /\ Connections' = [Connections EXCEPT ![a].messageNonce = n]
        /\ wmsg' = [wmsg EXCEPT ![w].nonce = n]
    /\ wpc' = [wpc EXCEPT ![w] = "send"]
    /\ UNCHANGED <<wtargets, wire, wsigned, wfailed, castVars, clientOther,
                   acceptVars>>

\* Lines 459-465: sendMessage(state.writer, message, state.writerMutex):
\* under the mutex the frame is appended to the buffered writer, or the
\* write fails and nothing is appended.
WriteSend(w, ok) ==
    /\ wpc[w] = "send"
    /\ LET a == Head(wtargets[w]) IN
        Connections' = IF ok
                       THEN [Connections EXCEPT ![a].writer = Append(@, wmsg[w])]
                       ELSE Connections
    /\ NextTarget(w, ~ok)
    /\ UNCHANGED <<wmsg, wire, wsigned, wop, wlist, clientOther, acceptVars>>

\* Lines 110-119: one tick of flushLoop: every ConnState's buffered writer
\* is flushed to its socket under the writer mutex.
FlushAll(conns, w) ==
    [a \in DOMAIN conns |->
        (IF a \in DOMAIN w THEN w[a] ELSE << >>) \o conns[a].writer]

FlushTick ==
    /\ flushPc = "running"
    /\ Elsewhere
    /\ \E a \in DOMAIN Connections : Connections[a].writer # << >>
    /\ wire' = FlushAll(Connections, wire)
    /\ Connections' = [a \in DOMAIN Connections |->
                          [Connections[a] EXCEPT !.writer = << >>]]
    /\ UNCHANGED <<wpc, wmsg, wtargets, wsigned, wfailed, castVars, clientOther,
                   acceptVars>>

(***************************************************************************)
(* SpecWrite: a node with one established session; NumWriters tasks each   *)
(* call BroadcastByAddresses (Tell is the call with one address) while the *)
(* flush loop ticks.                                                       *)
(***************************************************************************)
ConnectedAddr == <<"127.0.0.1", 3001>>

InitWrite ==
    /\ IdleWrite
    /\ IdleAccept
    /\ IdleNet
    /\ IdleClose
    /\ Peers = (ConnectedAddr :> 1)
    /\ Connections = (ConnectedAddr :> NewConnState(1))
    /\ nextClient = 2
    /\ outgoingReady = [c \in ClientIds |-> IF c = 1 THEN 1 ELSE 0]
    /\ pc = [t \in Tasks |-> "idle"]
    /\ addr = [t \in Tasks |-> InvalidAddress]
    /\ clientNew = [t \in Tasks |-> NoClient]
    /\ cl = [t \in Tasks |-> NoClient]
    /\ returned = {<<ConnectedAddr, 1>>}
    /\ refused = {}
    /\ dialed = {<<ConnectedAddr, 1, TRUE>>}

WriterStart ==
    /\ Elsewhere
    /\ \E w \in Writers, p \in Payloads, targets \in TargetLists :
          BroadcastByAddressesStart(w, p, targets)
WriterLoad == Elsewhere /\ \E w \in Writers : WriteLoad(w)
WriterNonce == Elsewhere /\ \E w \in Writers : WriteNonce(w)
WriterSend == Elsewhere /\ \E w \in Writers, ok \in BOOLEAN : WriteSend(w, ok)

NextWrite == WriterStart \/ WriterLoad \/ WriterNonce \/ WriterSend \/ FlushTick

SpecWrite == InitWrite /\ [][NextWrite]_vars

\* The frames appended to the buffered writer of address a so far, in the
\* order appended: those already flushed, then those still buffered.
Appended(a) ==
    (IF a \in DOMAIN wire THEN wire[a] ELSE << >>) \o Connections[a].writer

(***************************************************************************)
(* C3 (the claim as stated): on every connection the message_nonce values  *)
(* of the frames, in the order appended to the buffered writer, are        *)
(* strictly increasing and the first frame carries nonce 1.  Stated for    *)
(* runs in which no Write failed, so that every nonce drawn is appended.   *)
(***************************************************************************)
C3_NonceMonotonic ==
    (\A w \in Writers : wfailed[w] = {}) =>
        \A a \in DOMAIN Connections :
            LET s == Appended(a) IN
            /\ s # << >> => s[1].nonce = 1
            /\ \A i \in 1..Len(s), j \in 1..Len(s) :
                  i < j => s[i].nonce < s[j].nonce

\* The PeerClients whose dial failed.
FailedClients == {d[2] : d \in {x \in dialed : ~x[3]}}

(***************************************************************************)
(* C1 (the claim as stated): every Client(A) call that returns a client    *)
(* returns the same PeerClient for A, and one PeerClient only is ever      *)
(* installed and dialled for A by the racing callers.  The code breaks the *)
(* first clause: a caller that found the entry installed and waited for    *)
(* outgoingReady is handed the client even when the installer's dial       *)
(* failed and the entry was rolled back; a later call installs another.    *)
(***************************************************************************)
C1_AtMostOnePeer ==
    \A r1 \in returned, r2 \in returned : r1[1] = r2[1] => r1[2] = r2[2]

(***************************************************************************)
(* C4: Client(addr) with addr any spelling of the node's own address       *)
(* returns an error (it is recorded as refused and never as returned),     *)
(* installs no registry entry, dials nothing and stores no ConnState: no   *)
(* task ever proceeds past the self-dial test with the node's address.     *)
(***************************************************************************)
C4_SelfDialRefused ==
    /\ Address \notin DOMAIN Peers
    /\ Address \notin DOMAIN Connections
    /\ \A t \in DOMAIN pc : addr[t] # Address
    /\ \A d \in dialed : d[1] # Address
    /\ \A r \in returned : r[1] # Address
    /\ \A a \in refused : ToUnifiedAddress(a).address = Address

\* Client was called with a non-canonical spelling of the own address and
\* with the canonical one, and refused both.
C4_Witness ==
    /\ <<"localhost", Address[2]>> \in refused
    /\ Address \in refused

(***************************************************************************)
(* C5: when Client(A) installed the entry and its dial failed, the entry   *)
(* is gone from the registry before the error is returned (and stays       *)
(* gone), no ConnState holds a conn of the failed client, and a call that  *)
(* dials is always one that installed a fresh entry, never the failed one. *)
(***************************************************************************)
C5_DialFailureRollback ==
    /\ \A t \in DOMAIN pc :
          pc[t] = "deferErr" =>
            ~(addr[t] \in DOMAIN Peers /\ Peers[addr[t]] = cl[t])
    /\ \A c \in FailedClients :
          (\A t \in DOMAIN pc : ~(pc[t] = "rollback" /\ cl[t] = c))
            => c \notin MapRange(Peers)
    /\ \A a \in DOMAIN Connections : Connections[a].conn \notin FailedClients
    /\ \A t \in DOMAIN pc :
          pc[t] = "dial" =>
            /\ cl[t] \notin FailedClients
            /\ addr[t] \in DOMAIN Peers /\ Peers[addr[t]] = cl[t]

\* A dial to A failed and was rolled back, and a later call installed a
\* fresh entry for A, dialled again and stored its ConnState.
C5_Witness ==
    \E d \in dialed :
        /\ ~d[3]
        /\ d[1] \in DOMAIN Connections
        /\ d[1] \in DOMAIN Peers /\ Peers[d[1]] # d[2]

(***************************************************************************)
(* Accept: the read loop of one accepted connection, its per-message       *)
(* goroutines, the per-peer ordered executor and dispatchMessage.          *)
(***************************************************************************)
\* Sender identities: two keys claiming the same address.
Sender1 == [key |-> 1, address |-> ConnectedAddr]
Sender2 == [key |-> 2, address |-> ConnectedAddr]

\* The envelopes receiveMessage may return (signature already verified):
\* plugin-bound payloads with and without a request nonce, replies, a raw
\* Bytes payload, a payload UnmarshalAny rejects, and another sender's.
Envelope(s, kind, rn, reply) ==
    [sender |-> s, kind |-> kind, requestNonce |-> rn, replyFlag |-> reply]

FrameSet ==
    {Envelope(Sender1, "msg", 0, FALSE), Envelope(Sender1, "msg", 1, FALSE),
     Envelope(Sender2, "msg", 0, FALSE),
     Envelope(Sender1, "bytes", 0, FALSE), Envelope(Sender1, "bad", 0, FALSE)}
    \cup {Envelope(Sender1, "msg", n, TRUE) : n \in 1..(MaxRequests + 1)}

Msg(g) == received[g[1]][g[2]]

\* Lines 365-373: receiveMessage returned an envelope; `go func() {...}()`.
AcceptRecv(x, f) ==
    /\ rpc[x] = "reading"
    /\ Len(received[x]) < MaxMsgs
    /\ received' = [received EXCEPT ![x] = Append(@, f)]
    /\ gpc' = [gpc EXCEPT ![<<x, Len(received[x]) + 1>>] = "once"]
    /\ UNCHANGED <<rpc, rerr, once, acClient, acOutgoing, gerr, outcome, peerVars,
                   execVars, reqVars, plugVars, crashed, clientVars, writeVars>>

\* PeerClient.Close(): counted; it closes the ordered executor.
ClientClose(cs, c) == IF c = NoClient THEN cs ELSE [cs EXCEPT ![c] = @ + 1]

\* The errors receiveMessage returns: a failed read of the socket, a frame
\* whose signature does not verify, an empty frame (errEmptyMsg).
RecvErrors == {"ReadError", "SignatureInvalid", "EmptyMsg"}

\* Line 366: `if err != nil`, whatever the error is.
BreaksLoop(e) == e # ""

\* Lines 366-371 and the deferred cleanup of lines 350-362: receiveMessage
\* returned an error (read error, invalid signature, empty message); the
\* loop breaks, client.Close() is called if `client` is set by now, and the
\* sockets are closed.
AcceptRecvErr(x, e) ==
    /\ rpc[x] = "reading"
    /\ BreaksLoop(e)
    /\ rpc' = [rpc EXCEPT ![x] = "closed"]
    /\ rerr' = [rerr EXCEPT ![x] = e]
    /\ closed' = ClientClose(closed, acClient[x])
    /\ UNCHANGED <<received, once, acClient, acOutgoing, gorVars, clientID,
                   incomingReady, execVars, reqVars, plugVars, crashed,
                   clientVars, writeVars>>

\* Line 375: clientInit.Do: the first goroutine to arrive runs the
\* initialization (and enters Client, line 376); one arriving while it runs
\* waits in Do.
GoOnce(g) ==
    /\ gpc[g] = "once"
    /\ once[g[1]] = "new"
    /\ once' = [once EXCEPT ![g[1]] = "running"]
    /\ gpc' = [gpc EXCEPT ![g] = "client"]
    /\ ClientEnter(g, Msg(g).sender.address)
    /\ UNCHANGED <<rpc, rerr, received, acClient, acOutgoing, gerr, outcome,
                   peerVars,
                   execVars, reqVars, plugVars, crashed, writeVars>>

\* Line 376: the steps of Client made by the initializing goroutine.
GoClient(g) ==
    /\ gpc[g] = "client"
    /\ ClientStep(g)
    /\ UNCHANGED <<acceptVars, writeVars>>

\* Lines 376-392, after Client returned: on an error the initialization
\* ends with `client` nil and `err` set; otherwise the sender becomes
\* client.ID, the outgoing conn is loaded from Connections (or err is set)
\* and incomingReady is closed (closing it twice panics).
GoInitDone(g) ==
    /\ gpc[g] = "client"
    /\ pc[g] = "returned"
    /\ LET x == g[1]
           c == cl[g]
           a == Msg(g).sender.address IN
        /\ acClient' = [acClient EXCEPT ![x] = c]
        /\ IF c = NoClient
           THEN /\ gerr' = [gerr EXCEPT ![g] = TRUE]
                /\ UNCHANGED <<acOutgoing, clientID, incomingReady, crashed>>
           ELSE /\ clientID' = [clientID EXCEPT ![c] = Msg(g).sender.key]
                /\ IF a \in DOMAIN Connections
                   THEN /\ acOutgoing' = [acOutgoing EXCEPT ![x] = Connections[a].conn]
                        /\ UNCHANGED gerr
                   ELSE /\ gerr' = [gerr EXCEPT ![g] = TRUE]
                        /\ UNCHANGED acOutgoing
                /\ incomingReady' = [incomingReady EXCEPT ![c] = @ + 1]
                /\ crashed' = IF incomingReady[c] > 0
                              THEN "close of closed channel" ELSE crashed
    /\ once' = [once EXCEPT ![g[1]] = "done"]
    /\ gpc' = [gpc EXCEPT ![g] = "check"]
    /\ pc' = [pc EXCEPT ![g] = "idle"]
    /\ cl' = [cl EXCEPT ![g] = NoClient]
    /\ UNCHANGED <<rpc, rerr, received, outcome, closed, execVars, reqVars, plugVars,
                   writeVars, Connections, Peers, nextClient, outgoingReady,
                   addr, clientNew, returned, refused, dialed>>

\* PeerClient.Submit(f): f joins the FIFO of the client's ordered executor,
\* unless the client is closed.
Submit(q, c, g) == IF closed[c] > 0 THEN q ELSE [q EXCEPT ![c] = Append(@, g)]

\* Line 400: client.ID.Equals(peer.ID(*msg.Sender)): the learned identity
\* against the envelope's sender.
EqualsMutant(id, sender) == TRUE
Equals(id, sender) == id = sender.key

\* Lines 394-405, by the initializing goroutine or by one that found the
\* initialization done at line 375: return on err; drop an envelope whose
\* sender is not client.ID (reading client.ID of a nil client panics); else
\* Submit.
GoCheck(g) ==
    /\ \/ gpc[g] = "check"
       \/ gpc[g] = "once" /\ once[g[1]] = "done"
    /\ gpc' = [gpc EXCEPT ![g] = "done"]
    /\ LET c == acClient[g[1]] IN
        IF gerr[g]
        THEN /\ outcome' = [outcome EXCEPT ![g] = "initError"]
             /\ UNCHANGED <<execQ, crashed>>
        ELSE IF c = NoClient
        THEN /\ crashed' = "nil pointer dereference"
             /\ UNCHANGED <<execQ, outcome>>
        ELSE IF ~Equals(clientID[c], Msg(g).sender)
        THEN /\ outcome' = [outcome EXCEPT ![g] = "senderMismatch"]
             /\ UNCHANGED <<execQ, crashed>>
        ELSE /\ execQ' = Submit(execQ, c, g)
             /\ outcome' = [outcome EXCEPT ![g] =
                               IF closed[c] > 0 THEN "closed" ELSE "submitted"]
             /\ UNCHANGED crashed
    /\ UNCHANGED <<readVars, gerr, peerVars, wk, reqVars, plugVars,
                   clientVars, writeVars>>

\* Line 140: msg.RequestNonce > 0 && msg.ReplyFlag.
IsReplyMutant(m) == FALSE
IsReply(m) == m.requestNonce > 0 /\ m.replyFlag

\* contextPool.Get(): a PluginContext at rest in the pool, or a new one.
FreshCtx == CHOOSE i \in CtxIds :
                /\ i \notin pool
                /\ \A g \in Goroutines : fpc[g] \in 1..(NumPlugins + 1) => fctx[g] # i
PoolGet == pool \cup {FreshCtx}

\* Lines 129-170, run by the worker of client c's ordered executor on the
\* head of its FIFO: dispatchMessage(client, msg).
WorkerDispatch(c) ==
    /\ wk[c].st = "idle"
    /\ execQ[c] # << >>
    /\ LET g == Head(execQ[c])
           m == Msg(g) IN
        /\ execQ' = [execQ EXCEPT ![c] = Tail(@)]
        /\ IF ~GateClosed(incomingReady, c)
           THEN /\ outcome' = [outcome EXCEPT ![g] = "notReady"]
                /\ UNCHANGED <<wk, plugVars>>
           ELSE IF m.kind = "bad"
           THEN /\ outcome' = [outcome EXCEPT ![g] = "undecodable"]
                /\ UNCHANGED <<wk, plugVars>>
           ELSE IF IsReply(m) /\ <<c, m.requestNonce>> \in Requests
           THEN /\ wk' = [wk EXCEPT ![c] = [st |-> "deliver", g |-> g,
                                             n |-> m.requestNonce]]
                /\ outcome' = [outcome EXCEPT ![g] = "reply"]
                /\ UNCHANGED plugVars
           ELSE IF m.kind = "bytes"
           THEN /\ outcome' = [outcome EXCEPT ![g] = "bytes"]
                /\ UNCHANGED <<wk, plugVars>>
           ELSE /\ \E i \in PoolGet :
                    /\ pool' = pool \ {i}
                    /\ ctxs' = [ctxs EXCEPT ![i] = [client |-> c, message |-> g,
                                                    nonce |-> m.requestNonce]]
                    /\ fctx' = [fctx EXCEPT ![g] = i]
                /\ fpc' = [fpc EXCEPT ![g] = 1]
                /\ outcome' = [outcome EXCEPT ![g] = "plugins"]
                /\ UNCHANGED <<wk, perr>>
    /\ UNCHANGED <<readVars, gpc, gerr, peerVars, reqVars, crashed,
                   clientVars, writeVars>>

\* Lines 143-147: select { state.data <- ptr.Message ; <-state.closeSignal }:
\* the reply goes into the slot of the RequestState loaded under its nonce
\* if the slot has room, or is dropped if the close signal has fired.
WorkerDeliver(c) ==
    /\ wk[c].st = "deliver"
    /\ \/ /\ slot[wk[c].n] = 0
          /\ slot' = [slot EXCEPT ![wk[c].n] = 1]
          /\ delivered' = delivered \cup {<<wk[c].n, wk[c].g>>}
       \/ /\ wk[c].n \in reqClosed
          /\ UNCHANGED <<slot, delivered>>
    /\ wk' = [wk EXCEPT ![c] = [st |-> "idle", g |-> NoMessage, n |-> 0]]
    /\ UNCHANGED <<readVars, gorVars, peerVars, execQ, Requests, reqClosed,
                   nextReq, plugVars, crashed, clientVars, writeVars>>

\* Lines 163-165: an error of plugin.Receive is logged; Each goes on to
\* the next plugin (position k + 1; after the last one, the Put).
AfterReceiveMutant(k, err) == IF err THEN NumPlugins + 2 ELSE k + 1
AfterReceive(k, err) == k + 1

\* Lines 160-166: the fan-out goroutine calls the next plugin's Receive
\* with the borrowed context; the plugin returns an error or nil.
PluginReceive(g, err) ==
    /\ fpc[g] \in 1..NumPlugins
    /\ fpc' = [fpc EXCEPT ![g] = AfterReceive(@, err)]
    /\ perr' = [perr EXCEPT ![g] = IF err THEN @ + 1 ELSE @]
    /\ UNCHANGED <<readVars, gorVars, peerVars, execVars, reqVars, pool, ctxs,
                   fctx, crashed, clientVars, writeVars>>

\* Line 168: contextPool.Put(ctx).
ContextPut(g) ==
    /\ fpc[g] = NumPlugins + 1
    /\ pool' = pool \cup {fctx[g]}
    /\ fpc' = [fpc EXCEPT ![g] = @ + 1]
    /\ UNCHANGED <<readVars, gorVars, peerVars, execVars, reqVars, ctxs, fctx,
                   perr, crashed, clientVars, writeVars>>

\* PeerClient.Request: a RequestState is registered under a fresh nonce on
\* a client the caller holds.
RequestRegister(c) ==
    /\ nextReq <= MaxRequests
    /\ \E x \in Conns : acClient[x] = c
    /\ Requests' = Requests \cup {<<c, nextReq>>}
    /\ nextReq' = nextReq + 1
    /\ UNCHANGED <<readVars, gorVars, peerVars, execVars, reqClosed, slot,
                   delivered, plugVars, crashed, clientVars, writeVars>>

\* PeerClient.Request returns (reply taken, or timed out): the registration
\* is removed and the close signal fires.
RequestFinish(c, n) ==
    /\ <<c, n>> \in Requests
    /\ Requests' = Requests \ {<<c, n>>}
    /\ reqClosed' = reqClosed \cup {n}
    /\ UNCHANGED <<readVars, gorVars, peerVars, execVars, slot, nextReq,
                   delivered, plugVars, crashed, clientVars, writeVars>>

(***************************************************************************)
(* SpecAccept: a listening node accepts connections from a peer; the       *)
(* registry starts empty.                                                  *)
(***************************************************************************)
InitAccept == InitClient

\* A panic ends the process: nothing runs after it.
Running == crashed = "" /\ Elsewhere

Recv == Running /\ \E x \in Conns, f \in FrameSet : AcceptRecv(x, f)
RecvErr == Running /\ \E x \in Conns, e \in RecvErrors : AcceptRecvErr(x, e)
GoroutineOnce == Running /\ \E g \in Goroutines : GoOnce(g)
GoroutineClient == Running /\ \E g \in Goroutines : GoClient(g)
GoroutineInitDone == Running /\ \E g \in Goroutines : GoInitDone(g)
GoroutineCheck == Running /\ \E g \in Goroutines : GoCheck(g)
Dispatch == Running /\ \E c \in ClientIds : WorkerDispatch(c)
Deliver == Running /\ \E c \in ClientIds : WorkerDeliver(c)
\* The plugins of these specifications return nil from Receive.
FanOut == Running /\ \E g \in Goroutines : PluginReceive(g, FALSE)
PoolPut == Running /\ \E g \in Goroutines : ContextPut(g)
Register == Running /\ \E c \in ClientIds : RequestRegister(c)
Finish == Running /\ \E c \in ClientIds, n \in 1..MaxRequests : RequestFinish(c, n)

NextAccept ==
    \/ Recv \/ RecvErr
    \/ GoroutineOnce \/ GoroutineClient \/ GoroutineInitDone \/ GoroutineCheck
    \/ Dispatch \/ Deliver \/ FanOut \/ PoolPut
    \/ Register \/ Finish

SpecAccept == InitAccept /\ [][NextAccept]_vars

(***************************************************************************)
(* SpecDispatch: the receive path of a connection whose initialization     *)
(* has completed: Client returned client 1, the sender's key was learned,  *)
(* incomingReady is closed; the first envelope's goroutine is about to     *)
(* test and submit it.  Further envelopes arrive; Request calls register   *)
(* and leave.                                                              *)
(***************************************************************************)
InitDispatch ==
    /\ IdleWrite
    /\ IdleNet
    /\ IdleClose
    /\ Peers = (ConnectedAddr :> 1)
    /\ Connections = (ConnectedAddr :> NewConnState(1))
    /\ nextClient = 2
    /\ outgoingReady = [c \in ClientIds |-> IF c = 1 THEN 1 ELSE 0]
    /\ pc = [t \in Tasks |-> "idle"]
    /\ addr = [t \in Tasks |-> InvalidAddress]
    /\ clientNew = [t \in Tasks |-> NoClient]
    /\ cl = [t \in Tasks |-> NoClient]
    /\ returned = {<<ConnectedAddr, 1>>}
    /\ refused = {}
    /\ dialed = {<<ConnectedAddr, 1, TRUE>>}
    /\ rpc = [x \in Conns |-> "reading"]
    /\ rerr = [x \in Conns |-> ""]
    /\ \E f \in {e \in FrameSet : e.sender = Sender1} :
          received = [x \in Conns |-> IF x = 1 THEN <<f>> ELSE << >>]
    /\ once = [x \in Conns |-> IF x = 1 THEN "done" ELSE "new"]
    /\ acClient = [x \in Conns |-> IF x = 1 THEN 1 ELSE NoClient]
    /\ acOutgoing = [x \in Conns |-> IF x = 1 THEN 1 ELSE 0]
    /\ gpc = [g \in Goroutines |-> IF g = <<1, 1>> THEN "check" ELSE "none"]
    /\ gerr = [g \in Goroutines |-> FALSE]
    /\ outcome = [g \in Goroutines |-> ""]
    /\ clientID = [c \in ClientIds |-> IF c = 1 THEN Sender1.key ELSE 0]
    /\ incomingReady = [c \in ClientIds |-> IF c = 1 THEN 1 ELSE 0]
    /\ closed = [c \in ClientIds |-> 0]
    /\ execQ = [c \in ClientIds |-> << >>]
    /\ wk = [c \in ClientIds |-> [st |-> "idle", g |-> NoMessage, n |-> 0]]
    /\ Requests = {}
    /\ reqClosed = {}
    /\ slot = [n \in 1..MaxRequests |-> 0]
    /\ nextReq = 1
    /\ delivered = {}
    /\ pool = {}
    /\ ctxs = [i \in CtxIds |-> [client |-> NoClient, message |-> NoMessage, nonce |-> 0]]
    /\ fpc = [g \in Goroutines |-> 0]
    /\ fctx = [g \in Goroutines |-> 0]
    /\ perr = [g \in Goroutines |-> 0]
    /\ crashed = ""

RecvEstablished == Running /\ \E f \in FrameSet : AcceptRecv(1, f)

NextDispatch ==
    \/ RecvEstablished
    \/ GoroutineCheck
    \/ Dispatch \/ Deliver \/ FanOut \/ PoolPut
    \/ Register \/ Finish

SpecDispatch == InitDispatch /\ [][NextDispatch]_vars

\* The state SpecDispatch starts in, as SpecAccept reaches it.
DispatchStartNotReached ==
    ~(/\ once[1] = "done" /\ acClient[1] = 1 /\ acOutgoing[1] = 1
      /\ Len(received[1]) = 1 /\ gpc[<<1, 1>>] = "check" /\ ~gerr[<<1, 1>>]
      /\ clientID[1] = Sender1.key /\ incomingReady[1] = 1
      /\ Peers = (ConnectedAddr :> 1)
      /\ Connections = (ConnectedAddr :> NewConnState(1))
      /\ outgoingReady[1] = 1 /\ nextClient = 2 /\ pc[<<1, 1>>] = "idle"
      /\ rpc[1] = "reading" /\ Requests = {} /\ nextReq = 1)

(***************************************************************************)
(* Claims about the receive path.                                          *)
(***************************************************************************)

\* Plugin p's Receive has been invoked for the envelope of goroutine g.
Received(p, g) == fpc[g] > p

\* A valid plugin-bound envelope that is not a reply.
PluginBound(m) == m.kind = "msg" /\ ~m.replyFlag

\* C2: per-peer ordering: on one accepted connection, for plugin-bound
\* envelopes m1..mn of one sender received in that order, every plugin's
\* Receive is invoked for them in that order: a plugin that has received a
\* later envelope has received every earlier one.
C2_PerPeerOrdering ==
    \A x \in Conns : \A k1, k2 \in 1..Len(received[x]) :
        (/\ k1 < k2
         /\ PluginBound(received[x][k1]) /\ PluginBound(received[x][k2])
         /\ received[x][k1].sender = received[x][k2].sender)
        => \A p \in 1..NumPlugins :
               Received(p, <<x, k2>>) => Received(p, <<x, k1>>)

\* The worker of client c takes the head of its FIFO and finds a decodable
\* reply whose nonce is registered on c.
DispatchesRegisteredReply(c) ==
    /\ wk[c].st = "idle"
    /\ execQ[c] # << >>
    /\ execQ'[c] = Tail(execQ[c])
    /\ incomingReady[c] > 0
    /\ Msg(Head(execQ[c])).kind # "bad"
    /\ Msg(Head(execQ[c])).requestNonce > 0
    /\ Msg(Head(execQ[c])).replyFlag
    /\ <<c, Msg(Head(execQ[c])).requestNonce>> \in Requests

\* C9: reply correlation takes precedence: a dispatched envelope with
\* request_nonce > 0 and reply_flag set whose nonce has a registered
\* RequestState goes to that RequestState (and no plugin context is taken
\* for it); it then lands in the slot of its own nonce or is dropped after
\* the close signal fired; no plugin ever receives it, and every payload a
\* slot holds carries that slot's nonce.
C9_ReplyPrecedence ==
    /\ [][\A c \in ClientIds :
            /\ DispatchesRegisteredReply(c)
                 => /\ wk'[c] = [st |-> "deliver", g |-> Head(execQ[c]),
                                 n |-> Msg(Head(execQ[c])).requestNonce]
                    /\ UNCHANGED plugVars
            /\ (wk[c].st = "deliver" /\ wk'[c].st # "deliver")
                 => \/ /\ delivered' = delivered \cup {<<wk[c].n, wk[c].g>>}
                       /\ \A n \in 1..MaxRequests :
                            slot'[n] = IF n = wk[c].n THEN 1 ELSE slot[n]
                    \/ /\ wk[c].n \in reqClosed
                       /\ UNCHANGED <<delivered, slot>>]_vars
    /\ [](\A g \in Goroutines :
            /\ outcome[g] = "reply" => fpc[g] = 0
            /\ \A n \in 1..MaxRequests :
                 <<n, g>> \in delivered
                   => /\ Msg(g).requestNonce = n /\ Msg(g).replyFlag
                      /\ outcome[g] = "reply")

\* A reply reached the slot of its request while an envelope of the same
\* connection went to the plugins.
C9_Witness ==
    \E g \in Goroutines :
        /\ outcome[g] = "reply"
        /\ <<Msg(g).requestNonce, g>> \in delivered
        /\ \E h \in Goroutines : fpc[h] > 0

(***************************************************************************)
(* Several nodes: the harness of the tests starts NumNodes nodes, each     *)
(* runs Listen, the nodes other than node 0 call Bootstrap(node 0), and    *)
(* node 0 then calls Broadcast or BroadcastByAddresses.  The transport     *)
(* delivers what is flushed, in order and unaltered; a Dial succeeds when  *)
(* a node listens at the address.  Within a node, the calls of Client for  *)
(* one address never overlap here, so Client is one step.                  *)
(***************************************************************************)
\* Line 44 of the harness: "localhost" and a port of its own; the builder
\* stores the address unified.
NodeAddress(n) == ToUnifiedAddress(<<"localhost", 3000 + n>>).address
\* n.ID: the node's public key and address.
NodeID(n) == [key |-> n + 1, address |-> NodeAddress(n)]
NodeAt(a) == CHOOSE n \in Nodes : NodeAddress(n) = a
NodeAddrs == {NodeAddress(n) : n \in Nodes}

\* Lines 432-436: the signature over (sender id, payload bytes) with the
\* node's key; receiveMessage accepts an envelope whose signature is the
\* sender's over its payload.
Sign(id, raw) == <<id.key, raw>>
Verify(m) == m.signature = <<m.sender.key, m.payload>>

\* Lines 420-447: PrepareMessage on node n.
NetPrepareMessage(n, p) ==
    [sender |-> NodeID(n), kind |-> "msg", requestNonce |-> 0,
     replyFlag |-> FALSE, payload |-> p, signature |-> Sign(NodeID(n), p),
     nonce |-> 0]

\* Lines 450-465: Write(address, message) on a node whose Connections is cs.
NetWriteMutant(cs, a, m) ==
    [b \in DOMAIN cs |->
        [cs[b] EXCEPT !.messageNonce = @ + 1,
                      !.writer = Append(@, [m EXCEPT !.nonce = cs[b].messageNonce + 1])]]
NetWrite(cs, a, m) ==
    IF a \in DOMAIN cs
    THEN [cs EXCEPT ![a].messageNonce = @ + 1,
                    ![a].writer = Append(@, [m EXCEPT !.nonce = cs[a].messageNonce + 1])]
    ELSE cs

\* createPeerClient: a PeerClient that has learned no ID yet.
NoID == [key |-> 0, address |-> InvalidAddress]
NewPeerClient == [ID |-> NoID, incomingReady |-> 0]

\* transport Dial (line 335) succeeds when a node listens at the address.
Listens(a) == \E m \in Nodes : NodeAddress(m) = a /\ Listening[m]

\* Lines 236-282: Client(a) on node n, run to its return: whether it
\* returns a client, and whether it installed and dialed.
NetClient(n, a) ==
    LET u == ToUnifiedAddress(a) IN
    IF u.err \/ u.address = NodeAddress(n)
    THEN [ok |-> FALSE, dialed |-> FALSE, address |-> u.address]
    ELSE IF u.address \in DOMAIN netPeers[n]
    THEN [ok |-> TRUE, dialed |-> FALSE, address |-> u.address]
    ELSE [ok |-> Listens(u.address), dialed |-> TRUE, address |-> u.address]

\* n.Peers, n.Connections and the connections accepted by the dialed node
\* after a Client call with result r.
PeersAfter(n, r) ==
    IF r.ok /\ r.dialed
    THEN MapStore(netPeers[n], r.address, NewPeerClient) ELSE netPeers[n]
ConnsAfter(n, r) ==
    IF r.ok /\ r.dialed
    THEN MapStore(netConns[n], r.address, NewConnState(<<n, NodeAt(r.address)>>))
    ELSE netConns[n]
AcceptAfter(n, r) ==
    IF r.ok /\ r.dialed
    THEN [netAccept EXCEPT ![<<n, NodeAt(r.address)>>].open = TRUE]
    ELSE netAccept

\* Lines 174-204: Listen on node n up to close(n.Listening).
NetListen(n) ==
    /\ ~Listening[n]
    /\ Listening' = [Listening EXCEPT ![n] = TRUE]
    /\ UNCHANGED <<netPeers, netConns, netLink, netAccept, netQ, inbox, bpc,
                   cast, netCrashed>>

\* Line 291: n.BlockUntilListening().
BlockUntilListeningMutant(n) == TRUE
BlockUntilListening(n) == Listening[n]

\* Lines 68-70 of the harness and line 291: node n, after node 0 listens
\* (line 62 of the harness), calls Bootstrap(node 0) and passes the gate.
BootstrapBlock(n) ==
    /\ bpc[n] = "idle"
    /\ Listening[BootstrapNode]
    /\ BlockUntilListening(n)
    /\ bpc' = [bpc EXCEPT ![n] = "client"]
    /\ UNCHANGED <<Listening, netPeers, netConns, netLink, netAccept, netQ,
                   inbox, cast, netCrashed>>

\* Lines 293-301: FilterPeers leaves node 0's address; n.Client(address).
BootstrapClient(n) ==
    /\ bpc[n] = "client"
    /\ LET r == NetClient(n, NodeAddress(BootstrapNode)) IN
        /\ netPeers' = [netPeers EXCEPT ![n] = PeersAfter(n, r)]
        /\ netConns' = [netConns EXCEPT ![n] = ConnsAfter(n, r)]
        /\ netAccept' = AcceptAfter(n, r)
        /\ bpc' = [bpc EXCEPT ![n] = IF r.ok THEN "tell" ELSE "done"]
    /\ UNCHANGED <<Listening, netLink, netQ, inbox, cast, netCrashed>>

\* Line 303: client.Tell(&protobuf.Ping{}): prepare, sign, Write.
BootstrapTell(n) ==
    /\ bpc[n] = "tell"
    /\ netConns' = [netConns EXCEPT ![n] =
                       NetWrite(@, NodeAddress(BootstrapNode),
                                NetPrepareMessage(n, "Ping"))]
    /\ bpc' = [bpc EXCEPT ![n] = "done"]
    /\ UNCHANGED <<Listening, netPeers, netLink, netAccept, netQ, inbox, cast,
                   netCrashed>>

\* Lines 109-119: a tick of node n's flush loop.
NetFlush(n) ==
    /\ \E a \in DOMAIN netConns[n] : netConns[n][a].writer # << >>
    /\ netLink' = [x \in Links |->
                     IF x[1] = n /\ NodeAddress(x[2]) \in DOMAIN netConns[n]
                     THEN netLink[x] \o netConns[n][NodeAddress(x[2])].writer
                     ELSE netLink[x]]
    /\ netConns' = [netConns EXCEPT ![n] =
                       [a \in DOMAIN netConns[n] |->
                           [netConns[n][a] EXCEPT !.writer = << >>]]]
    /\ UNCHANGED <<Listening, netPeers, netAccept, netQ, inbox, bpc, cast,
                   netCrashed>>

\* Lines 364-406: Accept on connection x = <<from, to>>, at node `to`,
\* reads the next frame and runs its goroutine up to client.Submit: the
\* first frame initializes (Client of the sender's address, which may dial
\* back; the ID; the outgoing connection; close(incomingReady)).
NetReceive(x) ==
    /\ netAccept[x].open
    /\ netLink[x] # << >>
    /\ netLink' = [netLink EXCEPT ![x] = Tail(@)]
    /\ LET j == x[2]
           m == Head(netLink[x])
           r == NetClient(j, m.sender.address)
           ps == PeersAfter(j, r)
           cs == ConnsAfter(j, r) IN
        IF ~Verify(m)
        THEN /\ netAccept' = [netAccept EXCEPT ![x].open = FALSE]
             /\ UNCHANGED <<netPeers, netConns, netQ, netCrashed>>
        ELSE IF ~netAccept[x].once
        THEN IF r.ok /\ r.address \in DOMAIN cs
             THEN /\ netPeers' = [netPeers EXCEPT ![j] =
                                     [ps EXCEPT ![r.address].ID = m.sender,
                                                ![r.address].incomingReady = @ + 1]]
                  /\ netConns' = [netConns EXCEPT ![j] = cs]
                  /\ netAccept' = [AcceptAfter(j, r) EXCEPT
                                      ![x].once = TRUE, ![x].client = r.address]
                  /\ netCrashed' = IF ps[r.address].incomingReady > 0
                                   THEN "close of closed channel" ELSE netCrashed
                  /\ netQ' = [netQ EXCEPT ![<<j, NodeAt(r.address)>>] = Append(@, m)]
             ELSE /\ netAccept' = [netAccept EXCEPT ![x].once = TRUE]
                  /\ UNCHANGED <<netPeers, netConns, netQ, netCrashed>>
        ELSE IF netAccept[x].client = InvalidAddress
        THEN /\ netCrashed' = "nil pointer dereference"
             /\ UNCHANGED <<netPeers, netConns, netAccept, netQ>>
        ELSE IF netPeers[j][netAccept[x].client].ID # m.sender
        THEN UNCHANGED <<netPeers, netConns, netAccept, netQ, netCrashed>>
        ELSE /\ netQ' = [netQ EXCEPT ![<<j, NodeAt(netAccept[x].client)>>] =
                            Append(@, m)]
             /\ UNCHANGED <<netPeers, netConns, netAccept, netCrashed>>
    /\ UNCHANGED <<Listening, inbox, bpc, cast>>

\* Lines 129-170: the worker of the executor of peer x[2] at node x[1] runs
\* dispatchMessage on the head of its FIFO; a plugin-bound payload reaches
\* the plugins' Receive.
NetDispatch(x) ==
    /\ netQ[x] # << >>
    /\ netQ' = [netQ EXCEPT ![x] = Tail(@)]
    /\ LET m == Head(netQ[x])
           c == netPeers[x[1]][NodeAddress(x[2])] IN
        inbox' = IF c.incomingReady > 0 /\ m.kind = "msg"
                 THEN [inbox EXCEPT ![x[1]] =
                          Append(@, [sender |-> m.sender.key, payload |-> m.payload])]
                 ELSE inbox
    /\ UNCHANGED <<Listening, netPeers, netConns, netLink, netAccept, bpc,
                   cast, netCrashed>>

\* Lines 73-85 of the harness: it goes on when every node has discovered
\* the others, which they learn from node 0 after it received their Ping.
Discovered ==
    \A i \in OtherNodes : \E k \in 1..Len(inbox[BootstrapNode]) :
        inbox[BootstrapNode][k] = [sender |-> NodeID(i).key, payload |-> "Ping"]

\* Line 470: n.Peers.Range(...) calls back for every entry (the callback
\* returns true).
BroadcastRangeMutant(n) ==
    IF DOMAIN netPeers[n] = {} THEN {}
    ELSE {CHOOSE a \in DOMAIN netPeers[n] : TRUE}
BroadcastRange(n) == DOMAIN netPeers[n]

\* Line 169 of the test, line 469: node 0 calls Broadcast(p).
NetBroadcast(p) ==
    /\ cast.pc = "idle"
    /\ Discovered
    /\ cast' = [pc |-> "tell", op |-> "Broadcast", payload |-> p,
                range |-> BroadcastRange(BootstrapNode), list |-> << >>,
                targets |-> << >>, signed |-> 0]
    /\ UNCHANGED <<Listening, netPeers, netConns, netLink, netAccept, netQ,
                   inbox, bpc, netCrashed>>

\* Lines 471-478: the callback for one entry: client.Tell(message), which
\* prepares, signs and writes to the client's address.
NetBroadcastTell ==
    /\ cast.pc = "tell"
    /\ IF cast.range = {}
       THEN /\ cast' = [cast EXCEPT !.pc = "done"]
            /\ UNCHANGED netConns
       ELSE \E a \in cast.range :
            /\ netConns' = [netConns EXCEPT ![BootstrapNode] =
                               NetWrite(@, a, NetPrepareMessage(BootstrapNode,
                                                                cast.payload))]
            /\ cast' = [cast EXCEPT !.range = @ \ {a}, !.signed = @ + 1]
    /\ UNCHANGED <<Listening, netPeers, netLink, netAccept, netQ, inbox, bpc,
                   netCrashed>>

\* The address lists node 0 may pass: 1..MaxTargets addresses of nodes,
\* repetitions and its own address included.
NetTargetLists == UNION {[1..k -> NodeAddrs] : k \in 1..MaxTargets}

\* Lines 483-487: node 0 calls BroadcastByAddresses(p, list): one
\* PrepareMessage.
NetBroadcastByAddresses(p, list) ==
    /\ cast.pc = "idle"
    /\ Discovered
    /\ cast' = [pc |-> "write", op |-> "BroadcastByAddresses", payload |-> p,
                range |-> {}, list |-> list, targets |-> list, signed |-> 1]
    /\ UNCHANGED <<Listening, netPeers, netConns, netLink, netAccept, netQ,
                   inbox, bpc, netCrashed>>

\* Lines 489-491: n.Write(address, signed) for the next address.
NetBroadcastWrite ==
    /\ cast.pc = "write"
    /\ IF cast.targets = << >>
       THEN /\ cast' = [cast EXCEPT !.pc = "done"]
            /\ UNCHANGED netConns
       ELSE /\ netConns' = [netConns EXCEPT ![BootstrapNode] =
                               NetWrite(@, Head(cast.targets),
                                        NetPrepareMessage(BootstrapNode,
                                                          cast.payload))]
            /\ cast' = [cast EXCEPT !.targets = Tail(@)]
    /\ UNCHANGED <<Listening, netPeers, netLink, netAccept, netQ, inbox, bpc,
                   netCrashed>>

(***************************************************************************)
(* SpecNet: the nodes of the harness.                                      *)
(***************************************************************************)
InitNet == InitClient

\* A panic ends the process; the other parts stay at rest.
NetRunning ==
    /\ netCrashed = ""
    /\ UNCHANGED <<clientVars, writeVars, acceptVars, closeVars, rnd>>

Listen == NetRunning /\ \E n \in Nodes : NetListen(n)
BootstrapGate == NetRunning /\ \E n \in OtherNodes : BootstrapBlock(n)
BootstrapDial == NetRunning /\ \E n \in OtherNodes : BootstrapClient(n)
BootstrapPing == NetRunning /\ \E n \in OtherNodes : BootstrapTell(n)
FlushLoop == NetRunning /\ \E n \in Nodes : NetFlush(n)
Accept == NetRunning /\ \E x \in Links : NetReceive(x)
DispatchMessage == NetRunning /\ \E x \in Links : NetDispatch(x)
Broadcast == NetRunning /\ \E p \in Payloads : NetBroadcast(p)
BroadcastTell == NetRunning /\ NetBroadcastTell
BroadcastByAddresses ==
    NetRunning /\ \E p \in Payloads, list \in NetTargetLists :
                     NetBroadcastByAddresses(p, list)
BroadcastWrite == NetRunning /\ NetBroadcastWrite

NextNet ==
    \/ Listen \/ BootstrapGate \/ BootstrapDial \/ BootstrapPing
    \/ FlushLoop \/ Accept \/ DispatchMessage
    \/ Broadcast \/ BroadcastTell \/ BroadcastByAddresses \/ BroadcastWrite

SpecNet == InitNet /\ [][NextNet]_vars

\* The flush loop ticks every writeFlushLatency, the goroutines of Accept
\* and the executors' workers are scheduled, and a call that has begun on
\* node 0 runs on.
SpecNetFair ==
    /\ SpecNet
    /\ WF_vars(FlushLoop) /\ WF_vars(Accept) /\ WF_vars(DispatchMessage)
    /\ WF_vars(BroadcastTell) /\ WF_vars(BroadcastWrite)

(***************************************************************************)
(* Claims about the nodes of the harness.                                  *)
(***************************************************************************)
\* Every message sent has been processed: the Bootstrap calls and node 0's
\* call have returned, nothing is buffered, in flight or queued.
Quiescent ==
    /\ \A n \in OtherNodes : bpc[n] = "done"
    /\ cast.pc \in {"idle", "done"}
    /\ \A n \in Nodes : \A a \in DOMAIN netConns[n] : netConns[n][a].writer = << >>
    /\ \A x \in Links : netLink[x] = << >> /\ netQ[x] = << >>

\* What node 0's call makes a plugin's Receive see, and how many times the
\* plugins of node n have seen e.
CastEntry == [sender |-> NodeID(BootstrapNode).key, payload |-> cast.payload]
Count(n, e) == Cardinality({k \in 1..Len(inbox[n]) : inbox[n][k] = e})
Occurrences(list, a) == Cardinality({k \in 1..Len(list) : list[k] = a})

\* C6: broadcast delivery: once the nodes are started and have bootstrapped
\* to node 0, a Broadcast(P) by node 0 is eventually received by every
\* other node, as payload P from node 0.
C6_BroadcastDelivery ==
    \A p \in Payloads :
        (cast.op = "Broadcast" /\ cast.payload = p)
            ~> (\A n \in OtherNodes :
                    Count(n, [sender |-> NodeID(BootstrapNode).key,
                              payload |-> p]) > 0)

\* Node 0 broadcast and every other node's plugins have received the
\* payload.
C6_Witness ==
    /\ cast.op = "Broadcast"
    /\ cast.pc = "done"
    /\ \A n \in OtherNodes : Count(n, CastEntry) = 1

\* C7 (as stated): BroadcastByAddresses(P, S) signs once, every connected
\* node whose address is in S receives P exactly once (never more, and once
\* when all is processed), and a node whose address is not in S receives
\* nothing from the call.
C7_TargetedBroadcast ==
    cast.op = "BroadcastByAddresses" =>
        /\ cast.signed = 1
        /\ \A n \in OtherNodes :
             IF \E k \in 1..Len(cast.list) : cast.list[k] = NodeAddress(n)
             THEN NodeAddress(n) \in DOMAIN netConns[BootstrapNode]
                    => /\ Count(n, CastEntry) <= 1
                       /\ Quiescent => Count(n, CastEntry) = 1
             ELSE Count(n, CastEntry) = 0

\* C7 (amended): BroadcastByAddresses(P, S) signs once, every connected
\* node receives P once for each occurrence of its address in the list S
\* (never more, and that many times when all is processed): a node whose
\* address is not in S receives nothing, one listed once receives P once.
C7_TargetedBroadcastPerOccurrence ==
    cast.op = "BroadcastByAddresses" =>
        /\ cast.signed = 1
        /\ \A n \in OtherNodes :
             NodeAddress(n) \in DOMAIN netConns[BootstrapNode]
               => /\ Count(n, CastEntry) <= Occurrences(cast.list, NodeAddress(n))
                  /\ Quiescent =>
                       Count(n, CastEntry) = Occurrences(cast.list, NodeAddress(n))

\* All of a call is processed: one node was addressed and received P once,
\* another was not addressed and received nothing.
C7_Witness ==
    /\ cast.op = "BroadcastByAddresses"
    /\ Quiescent
    /\ \E n, m \in OtherNodes :
         /\ Occurrences(cast.list, NodeAddress(n)) = 1
         /\ Count(n, CastEntry) = 1
         /\ Occurrences(cast.list, NodeAddress(m)) = 0
         /\ Count(m, CastEntry) = 0

\* C8: bootstrap connectivity: with node 0 listening and every other node
\* calling Bootstrap(node 0), Bootstrap does not dial before the caller's
\* own Listening gate is closed; when all messages are processed node 0's
\* registry holds exactly the NumNodes-1 bootstrapping nodes, one entry
\* each, and every other node's registry holds at least one peer.
C8_BootstrapConnectivity ==
    /\ [][\A n \in OtherNodes :
            (bpc[n] = "client" /\ bpc'[n] # "client") => Listening[n]]_vars
    /\ [](\A n \in OtherNodes : bpc[n] # "idle" => Listening[n])
    /\ [](Quiescent =>
            /\ DOMAIN netPeers[BootstrapNode] = {NodeAddress(n) : n \in OtherNodes}
            /\ Cardinality(DOMAIN netPeers[BootstrapNode]) = NumNodes - 1
            /\ \A n \in OtherNodes : DOMAIN netPeers[n] # {})

\* All Bootstrap calls returned and every Ping was processed by node 0.
C8_Witness ==
    /\ Quiescent
    /\ cast.pc = "idle"
    /\ Discovered
    /\ Cardinality(DOMAIN netPeers[BootstrapNode]) = NumNodes - 1

(***************************************************************************)
(* Shutdown: a node with sessions to some peers, its flush loop running    *)
(* and Listen called, on which Close() is called at any moment.            *)
(***************************************************************************)
\* PluginList.Each(f): f is called with the plugins in registration order;
\* Each(k) is the plugin of its k-th callback.
Each(k) == Plugins[k]

\* Lines 177-179: n.Plugins.Each(plugin.Startup(n)): the next callback.
ListenPluginStartup ==
    /\ listenPc = "startup"
    /\ Len(started) < NumPlugins
    /\ started' = Append(started, Each(Len(started) + 1))
    /\ UNCHANGED <<kill, flushPc, listenPc, listener, watcher, accepted, closePc,
                   visited, cleaned>>
    /\ UNCHANGED <<clientVars, writeVars, acceptVars, netVars, rnd>>

\* Line 179: Each has returned: every plugin's Startup has been called.
StartupDoneMutant(s) == TRUE
StartupDone(s) == Len(s) = NumPlugins

\* Lines 188-204: after the Startup callbacks, the listener is created and
\* n.Listening is closed (the address parses and the port is free).
ListenStartup ==
    /\ listenPc = "startup"
    /\ StartupDone(started)
    /\ listener' = "open"
    /\ listenPc' = "watch"
    /\ UNCHANGED <<kill, flushPc, watcher, accepted, closePc, visited, started,
                   cleaned>>
    /\ UNCHANGED <<clientVars, writeVars, acceptVars, netVars, rnd>>

\* Lines 209-215: `go func() { select { case <-n.kill: ... } }()`.
ListenWatch ==
    /\ listenPc = "watch"
    /\ watcher' = "waiting"
    /\ listenPc' = "accepting"
    /\ UNCHANGED <<kill, flushPc, listener, accepted, closePc, visited, started,
                   cleaned>>
    /\ UNCHANGED <<clientVars, writeVars, acceptVars, netVars, rnd>>

\* Line 213: listener.Close().
WatcherClosesMutant(l) == l
WatcherCloses(l) == "closed"

\* Lines 211-213: the kill channel is closed; the watcher closes the
\* listener.
WatcherKill ==
    /\ watcher = "waiting"
    /\ kill > 0
    /\ listener' = WatcherCloses(listener)
    /\ watcher' = "done"
    /\ UNCHANGED <<kill, flushPc, listenPc, accepted, closePc, visited, started,
                   cleaned>>
    /\ UNCHANGED <<clientVars, writeVars, acceptVars, netVars, rnd>>

\* Lines 219-220: listener.Accept() returned a connection: go n.Accept(conn).
ListenAccept ==
    /\ listenPc = "accepting"
    /\ listener = "open"
    /\ accepted < NumConns
    /\ accepted' = accepted + 1
    /\ UNCHANGED <<kill, flushPc, listenPc, listener, watcher, closePc, visited,
                   started, cleaned>>
    /\ UNCHANGED <<clientVars, writeVars, acceptVars, netVars, rnd>>

\* Lines 222-231: listener.Accept() returned an error on the closed
\* listener; with the kill channel closed Listen returns (its deferred
\* function runs next), else it logs and loops.
ListenAcceptError ==
    /\ listenPc = "accepting"
    /\ listener = "closed"
    /\ listenPc' = IF kill > 0 THEN "cleanup" ELSE listenPc
    /\ UNCHANGED <<kill, flushPc, listener, watcher, accepted, closePc, visited,
                   started, cleaned>>
    /\ UNCHANGED <<clientVars, writeVars, acceptVars, netVars, rnd>>

\* Lines 182-186: the deferred n.Plugins.Each(plugin.Cleanup(n)): the next
\* callback, and after the last one Listen has returned.
ListenCleanup ==
    /\ listenPc = "cleanup"
    /\ IF Len(cleaned) < NumPlugins
       THEN /\ cleaned' = Append(cleaned, Each(Len(cleaned) + 1))
            /\ UNCHANGED listenPc
       ELSE /\ listenPc' = "returned"
            /\ UNCHANGED cleaned
    /\ UNCHANGED <<kill, flushPc, listener, watcher, accepted, closePc, visited,
                   started>>
    /\ UNCHANGED <<clientVars, writeVars, acceptVars, netVars, rnd>>

\* Lines 107-108: flushLoop's select takes <-n.kill and returns.
FlushLoopKill ==
    /\ flushPc = "running"
    /\ kill > 0
    /\ flushPc' = "returned"
    /\ UNCHANGED <<kill, listenPc, listener, watcher, accepted, closePc, visited,
                   started, cleaned>>
    /\ UNCHANGED <<clientVars, writeVars, acceptVars, netVars, rnd>>

\* Line 535: close(n.kill).
CloseKill ==
    /\ closePc = "idle"
    /\ kill' = kill + 1
    /\ closePc' = "range"
    /\ UNCHANGED <<flushPc, listenPc, listener, watcher, accepted, visited,
                   started, cleaned>>
    /\ UNCHANGED <<clientVars, writeVars, acceptVars, netVars, rnd>>

\* Lines 538-541: n.Peers.Range: the callback closes the next PeerClient;
\* Close returns after the last.
CloseRange ==
    /\ closePc = "range"
    /\ IF \E a \in DOMAIN Peers : Peers[a] \notin visited
       THEN /\ \E a \in DOMAIN Peers :
                 /\ Peers[a] \notin visited
                 /\ closed' = ClientClose(closed, Peers[a])
                 /\ visited' = visited \cup {Peers[a]}
            /\ UNCHANGED closePc
       ELSE /\ closePc' = "done"
            /\ UNCHANGED <<closed, visited>>
    /\ UNCHANGED <<kill, flushPc, listenPc, listener, watcher, accepted, started,
                   cleaned>>
    /\ UNCHANGED <<clientVars, writeVars, readVars, gorVars, clientID,
                   incomingReady, execVars, reqVars, plugVars, crashed, netVars, rnd>>

\* The registry after Client succeeded for the first k remote addresses.
Registry(k) == [a \in {NodeAddress(i) : i \in 1..k} |-> NodeAt(a)]

\* A node with k sessions, a Ping possibly buffered on a session, its flush
\* loop running and Listen just called.
InitClose ==
    /\ IdleWrite
    /\ IdleAccept
    /\ IdleNet
    /\ \E k \in 0..Cardinality(RemoteAddrs), buffered \in BOOLEAN :
        /\ Peers = Registry(k)
        /\ Connections =
             [a \in DOMAIN Registry(k) |->
                IF buffered
                THEN [conn |-> Registry(k)[a], messageNonce |-> 1,
                      writer |-> <<[PrepareMessage("Ping") EXCEPT !.nonce = 1]>>]
                ELSE NewConnState(Registry(k)[a])]
        /\ nextClient = k + 1
        /\ outgoingReady = [c \in ClientIds |-> IF c <= k THEN 1 ELSE 0]
        /\ returned = {<<a, Registry(k)[a]>> : a \in DOMAIN Registry(k)}
        /\ dialed = {<<a, Registry(k)[a], TRUE>> : a \in DOMAIN Registry(k)}
    /\ pc = [t \in Tasks |-> "idle"]
    /\ addr = [t \in Tasks |-> InvalidAddress]
    /\ clientNew = [t \in Tasks |-> NoClient]
    /\ cl = [t \in Tasks |-> NoClient]
    /\ refused = {}
    /\ kill = 0
    /\ flushPc = "running"
    /\ listenPc = "startup"
    /\ listener = "none"
    /\ watcher = "none"
    /\ accepted = 0
    /\ closePc = "idle"
    /\ visited = {}
    /\ started = << >>
    /\ cleaned = << >>

NextClose ==
    \/ ListenPluginStartup \/ ListenStartup \/ ListenWatch
    \/ ListenAccept \/ ListenAcceptError \/ ListenCleanup
    \/ WatcherKill \/ FlushTick \/ FlushLoopKill
    \/ CloseKill \/ CloseRange

SpecClose == InitClose /\ [][NextClose]_vars

\* The goroutines of Listen, of its watcher, of the flush loop and of the
\* caller of Close are scheduled.
SpecCloseFair ==
    /\ SpecClose
    /\ WF_vars(ListenPluginStartup) /\ WF_vars(ListenStartup)
    /\ WF_vars(ListenWatch) /\ WF_vars(ListenAcceptError)
    /\ WF_vars(ListenCleanup) /\ WF_vars(WatcherKill)
    /\ WF_vars(FlushLoopKill) /\ WF_vars(CloseRange)

\* C10: graceful shutdown: after Close() is called on a network whose
\* flush loop and Listen are running, eventually the flush loop has
\* returned, the listener is closed, Listen has returned and Close has been
\* invoked on every PeerClient of the registry.
C10_GracefulShutdown ==
    (closePc # "idle")
        ~> (/\ flushPc = "returned"
            /\ listener = "closed"
            /\ listenPc = "returned"
            /\ \A a \in DOMAIN Peers : closed[Peers[a]] > 0)

\* Close returned on a node with two sessions; everything has stopped.
C10_Witness ==
    /\ closePc = "done"
    /\ flushPc = "returned"
    /\ listener = "closed"
    /\ listenPc = "returned"
    /\ Cardinality(DOMAIN Peers) = 2
    /\ \A a \in DOMAIN Peers : closed[Peers[a]] = 1

\* The first k plugins in registration order.
Registered(k) == SubSeq(Plugins, 1, k)

\* C11: plugin lifecycle ordering: in a run of Listen each plugin's Startup
\* is called at most once and in registration order, and all of them have
\* been called once the listener exists, the Listening gate is closed or a
\* connection is accepted; each plugin's Cleanup is called at most once, in
\* registration order, only after the accept loop has terminated (no
\* connection is accepted from then on); all of them have been called when
\* Listen has returned, which it does once Close has been called.
C11_PluginLifecycle ==
    /\ [](/\ started = Registered(Len(started))
          /\ cleaned = Registered(Len(cleaned))
          /\ (listenPc \notin {"none", "startup"} \/ listener # "none"
                \/ accepted > 0) => started = Plugins
          /\ cleaned # << >> => listenPc \in {"cleanup", "returned"}
          /\ listenPc = "returned" => cleaned = Plugins)
    /\ [][(listenPc \in {"cleanup", "returned"})
            => (accepted' = accepted /\ started' = started)]_vars
    /\ (closePc # "idle") ~> (listenPc = "returned" /\ cleaned = Plugins)

\* Listen accepted a connection and returned after Close: every plugin was
\* started and cleaned up.
C11_Witness ==
    /\ listenPc = "returned"
    /\ accepted > 0
    /\ started = Plugins
    /\ cleaned = Plugins

(***************************************************************************)
(* Claims about the errors of the read path.                               *)
(***************************************************************************)

\* C12 (the claim as stated): an invalid signature is not fatal: after
\* receiveMessage reported SignatureInvalid on a connection, its read loop
\* still reads and the PeerClient of the connection is not closed.  The
\* code breaks the loop on every error of receiveMessage.
C12_InvalidSignatureNonFatal ==
    \A x \in Conns :
        rerr[x] = "SignatureInvalid"
            => /\ rpc[x] = "reading"
               /\ acClient[x] # NoClient => closed[acClient[x]] = 0

\* The goroutine of envelope g gets past the initialization on a connection
\* whose PeerClient has learned an ID other than the envelope's sender.
ChecksOtherSender(g) ==
    /\ gpc[g] \in {"once", "check"}
    /\ gpc'[g] = "done"
    /\ ~gerr[g]
    /\ acClient[g[1]] # NoClient
    /\ clientID[acClient[g[1]]] # Msg(g).sender.key

C14_ReadErrorTearsDown ==
    /\ \A x \in Conns :
          rerr[x] = "ReadError"
              => /\ rpc[x] = "closed"
                 /\ acClient[x] # NoClient => closed[acClient[x]] > 0
    /\ \A c \in ClientIds :
          closed[c] > 0
              => /\ \E x \in Conns : acClient[x] = c /\ rpc[x] = "closed"
                 /\ \A y \in Conns : acClient[y] = c => rpc[y] = "closed"

(***************************************************************************)
(* SpecCast: one call of Broadcast, BroadcastByAddresses or BroadcastByIDs *)
(* on a node whose registry holds two peers, of which the first k have an  *)
(* established session and the others are still being dialled by a Client  *)
(* call (no ConnState yet); a send to a connected peer may fail too.       *)
(***************************************************************************)
CastCaller == 1

\* The peer.IDs a caller may pass to BroadcastByIDs.
RemoteIDs == {[key |-> NodeAt(a) + 1, address |-> a] : a \in RemoteAddrs}
IDLists == UNION {[1..k -> RemoteIDs] : k \in 1..MaxTargets}

InitCast ==
    /\ IdleWrite
    /\ IdleAccept
    /\ IdleNet
    /\ IdleClose
    /\ Peers = Registry(2)
    /\ nextClient = 3
    /\ refused = {}
    /\ \E k \in 0..2 :
        /\ Connections = [a \in DOMAIN Registry(k) |-> NewConnState(Registry(k)[a])]
        /\ outgoingReady = [c \in ClientIds |-> IF c <= k THEN 1 ELSE 0]
        /\ returned = {<<a, Registry(k)[a]>> : a \in DOMAIN Registry(k)}
        /\ dialed = {<<a, Registry(k)[a], TRUE>> : a \in DOMAIN Registry(k)}
        /\ pc = [t \in Tasks |->
                   IF t \in Callers /\ t[2] + k <= 2 THEN "dial" ELSE "idle"]
        /\ addr = [t \in Tasks |->
                     IF t \in Callers /\ t[2] + k <= 2
                     THEN NodeAddress(t[2] + k) ELSE InvalidAddress]
        /\ clientNew = [t \in Tasks |->
                          IF t \in Callers /\ t[2] + k <= 2 THEN t[2] + k ELSE NoClient]
        /\ cl = [t \in Tasks |->
                   IF t \in Callers /\ t[2] + k <= 2 THEN t[2] + k ELSE NoClient]

CastBroadcast ==
    /\ Elsewhere
    /\ \E p \in Payloads, order \in RangeOrders(Peers) :
          BroadcastStart(CastCaller, p, order)
CastByAddresses ==
    /\ Elsewhere
    /\ \E p \in Payloads, targets \in TargetLists :
          BroadcastByAddressesStart(CastCaller, p, targets)
CastByIDs ==
    /\ Elsewhere
    /\ \E p \in Payloads, ids \in IDLists :
          BroadcastByIDsStart(CastCaller, p, ids)
CastLoad == Elsewhere /\ WriteLoad(CastCaller)
CastNonce == Elsewhere /\ WriteNonce(CastCaller)
CastSend == Elsewhere /\ \E ok \in BOOLEAN : WriteSend(CastCaller, ok)

NextCast ==
    \/ CastBroadcast \/ CastByAddresses \/ CastByIDs
    \/ CastLoad \/ CastNonce \/ CastSend \/ FlushTick

SpecCast == InitCast /\ [][NextCast]_vars

\* C15: partial failure does not abort a broadcast: in Broadcast,
\* BroadcastByAddresses and BroadcastByIDs the targets a send was attempted
\* to, followed by the targets still to come, are always the targets the
\* call started with: a failed send (Tell or Write error, no connection
\* included) takes the call to its next target, and when the call has
\* returned a send was attempted to every target.
C15_PartialFailureContinues ==
    /\ [](\A w \in Writers :
            /\ wtried[w] \o wtargets[w] = wlist[w]
            /\ wpc[w] = "done" => wtried[w] = wlist[w]
            /\ \A a \in wfailed[w] : \E i \in DOMAIN wtried[w] : wtried[w][i] = a)
    /\ [][\A w \in Writers :
            wfailed'[w] # wfailed[w]
                => /\ wtargets[w] # << >>
                   /\ wtargets'[w] = Tail(wtargets[w])
                   /\ wpc'[w] = "load"]_vars

\* A Broadcast whose first Tell failed went on to the second peer and
\* wrote to it.
C15_Witness ==
    /\ wop[CastCaller] = "Broadcast"
    /\ wpc[CastCaller] = "done"
    /\ Len(wlist[CastCaller]) = 2
    /\ wfailed[CastCaller] = {wlist[CastCaller][1]}
    /\ Appended(wlist[CastCaller][2]) # << >>

(***************************************************************************)
(* SpecReaccept: SpecAccept in which the listener goes on accepting: when  *)
(* the read loop of a connection has ended and its goroutines are through, *)
(* the peer connects again and Listen starts a new Accept, with new locals *)
(* (lines 219-220, 343-348).  The registry and the PeerClients stay.       *)
(***************************************************************************)
\* Nothing of connection x's Accept is running or queued any more.
AcceptOver(x) ==
    /\ rpc[x] = "closed"
    /\ \A k \in 1..MaxMsgs :
          /\ gpc[<<x, k>>] \in {"none", "done"}
          /\ fpc[<<x, k>>] \in {0, NumPlugins + 2}
    /\ \A c \in ClientIds :
          /\ wk[c].g[1] # x
          /\ \A i \in 1..Len(execQ[c]) : execQ[c][i][1] # x

\* Lines 219-220 and 343-348: listener.Accept() returns the next
\* connection; `go n.Accept(conn)` starts with client nil, outgoing nil
\* and a new clientInit; nothing has been received on it.
AcceptStart(x) ==
    /\ AcceptOver(x)
    /\ rpc' = [rpc EXCEPT ![x] = "reading"]
    /\ rerr' = [rerr EXCEPT ![x] = ""]
    /\ received' = [received EXCEPT ![x] = << >>]
    /\ once' = [once EXCEPT ![x] = "new"]
    /\ acClient' = [acClient EXCEPT ![x] = NoClient]
    /\ acOutgoing' = [acOutgoing EXCEPT ![x] = 0]
    /\ gpc' = [g \in Goroutines |-> IF g[1] = x THEN "none" ELSE gpc[g]]
    /\ gerr' = [g \in Goroutines |-> IF g[1] = x THEN FALSE ELSE gerr[g]]
    /\ outcome' = [g \in Goroutines |-> IF g[1] = x THEN "" ELSE outcome[g]]
    /\ fpc' = [g \in Goroutines |-> IF g[1] = x THEN 0 ELSE fpc[g]]
    /\ fctx' = [g \in Goroutines |-> IF g[1] = x THEN 0 ELSE fctx[g]]
    /\ perr' = [g \in Goroutines |-> IF g[1] = x THEN 0 ELSE perr[g]]
    /\ UNCHANGED <<peerVars, execVars, reqVars, pool, ctxs, crashed, clientVars,
                   writeVars>>

Reaccept == Running /\ \E x \in Conns : AcceptStart(x)

NextReaccept ==
    \/ Recv \/ RecvErr \/ Reaccept
    \/ GoroutineOnce \/ GoroutineClient \/ GoroutineInitDone \/ GoroutineCheck
    \/ Dispatch \/ Deliver \/ FanOut \/ PoolPut
    \/ Register \/ Finish

SpecReaccept == InitAccept /\ [][NextReaccept]_vars

\* C16 (the claim as stated): one-shot gates: over any sequence of Client
\* calls and accepted connections naming the same address, no PeerClient's
\* incomingReady or outgoingReady is closed a second time, and the
\* initialization of Accept has run once on a connection whose goroutines
\* got past it.  The code closes incomingReady again when a later accepted
\* connection names the address of a PeerClient the registry still holds.
C16_OneShotGates ==
    /\ \A c \in ClientIds : incomingReady[c] <= 1 /\ outgoingReady[c] <= 1
    /\ crashed # "close of closed channel"
    /\ \A g \in Goroutines : gpc[g] \in {"check", "done"} => once[g[1]] = "done"

\* C17 (the claim as stated): reply to a removed slot is a no-op: an
\* envelope with request_nonce > 0 and reply_flag set that dispatchMessage
\* did not find registered on the client (never registered, or removed
\* since) reaches no slot and no plugin's Receive.  The code lets it fall
\* through to the type switch, which hands it to the plugins.
C17_UnregisteredReplyNoOp ==
    \A g \in Goroutines :
        (/\ gpc[g] # "none"
         /\ Msg(g).requestNonce > 0 /\ Msg(g).replyFlag
         /\ outcome[g] # "reply")
            => /\ \A p \in 1..NumPlugins : ~Received(p, g)
               /\ \A n \in 1..MaxRequests : <<n, g>> \notin delivered

(***************************************************************************)
(* SpecPool: the plugin fan-out of an established connection: envelopes    *)
(* that are not replies arrive, are dispatched, and the plugins' Receive   *)
(* returns nil or an error.                                                *)
(***************************************************************************)
RecvPluginBound ==
    Running /\ \E f \in {e \in FrameSet : ~e.replyFlag} : AcceptRecv(1, f)
FanOutResult ==
    Running /\ \E g \in Goroutines, err \in BOOLEAN : PluginReceive(g, err)

NextPool ==
    \/ RecvPluginBound \/ GoroutineCheck
    \/ Dispatch \/ FanOutResult \/ PoolPut

SpecPool == InitDispatch /\ [][NextPool]_vars

\* The fan-out of envelope g holds a borrowed PluginContext.
Borrowed(g) == fpc[g] \in 1..(NumPlugins + 1)

\* C18: pool discipline: a borrowed PluginContext is outside the pool, is
\* held by one dispatch only and carries that dispatch's client, message
\* and nonce; its fan-out calls the plugins one after the other in
\* registration order, whatever Receive returns, and then puts the context
\* back, once; when no dispatch is in progress every context handed out is
\* back in the pool.
C18_PoolDiscipline ==
    /\ [](\A g \in Goroutines :
            /\ Borrowed(g)
                 => /\ fctx[g] \notin pool
                    /\ ctxs[fctx[g]] = [client |-> acClient[g[1]], message |-> g,
                                         nonce |-> Msg(g).requestNonce]
                    /\ \A h \in Goroutines :
                          (h # g /\ Borrowed(h)) => fctx[h] # fctx[g]
            /\ fpc[g] = NumPlugins + 2
                 => \/ fctx[g] \in pool
                    \/ \E h \in Goroutines : Borrowed(h) /\ fctx[h] = fctx[g])
    /\ []((\A g \in Goroutines : ~Borrowed(g))
            => \A g \in Goroutines : fpc[g] > 0 => fctx[g] \in pool)
    /\ [][\A g \in Goroutines :
            /\ fpc'[g] # fpc[g] => fpc'[g] = fpc[g] + 1
            /\ (fpc[g] = NumPlugins + 1 /\ fpc'[g] # fpc[g])
                 => pool' = pool \cup {fctx[g]}
            /\ (fctx[g] \notin pool /\ fctx[g] \in pool')
                 => fpc[g] = NumPlugins + 1 \/ ~Borrowed(g)]_vars

\* A plugin's Receive returned an error for an envelope; the next plugin
\* was still called and the context is back in the pool.
C18_Witness ==
    \E g \in Goroutines :
        /\ perr[g] > 0
        /\ fpc[g] = NumPlugins + 2
        /\ fctx[g] \in pool

(***************************************************************************)
(* SpecRandom: one BroadcastRandomly(message, K) on a node whose registry  *)
(* holds n established peers, for every K in 0..MaxK and n in 0..2, every  *)
(* order of Peers.Range and every outcome of rand.Shuffle.                 *)
(***************************************************************************)
MaxK == 2

\* A registry of n peers, each dialled and established; no call running.
InitRandom ==
    /\ IdleWrite
    /\ IdleAccept
    /\ IdleNet
    /\ IdleClose
    /\ refused = {}
    /\ pc = [t \in Tasks |-> "idle"]
    /\ addr = [t \in Tasks |-> InvalidAddress]
    /\ clientNew = [t \in Tasks |-> NoClient]
    /\ cl = [t \in Tasks |-> NoClient]
    /\ \E n \in 0..2 :
        /\ Peers = Registry(n)
        /\ nextClient = n + 1
        /\ Connections = [a \in DOMAIN Registry(n) |-> NewConnState(Registry(n)[a])]
        /\ outgoingReady = [c \in ClientIds |-> IF c <= n THEN 1 ELSE 0]
        /\ returned = {<<a, Registry(n)[a]>> : a \in DOMAIN Registry(n)}
        /\ dialed = {<<a, Registry(n)[a], TRUE>> : a \in DOMAIN Registry(n)}

\* client.Address of the PeerClient stored under a key: the address Client
\* created it with, which is the key it stored it under.
ClientAddress(c) == CHOOSE a \in DOMAIN Peers : Peers[a] = c

\* Line 517: the callback's result, after its append: Range goes on while
\* it is true.
KeepsRanging(len, K) == len <= K * 3

\* Lines 525-529: addresses[:K], with K lowered to len(addresses).
Forwarded(addresses, K) ==
    SubSeq(addresses, 1, IF Len(addresses) < K THEN Len(addresses) ELSE K)

\* The orders rand.Shuffle may leave a slice in.
Shuffles(q) ==
    {[i \in DOMAIN q |-> q[f[i]]] :
        f \in {g \in [DOMAIN q -> DOMAIN q] :
                 \A i, j \in DOMAIN q : i # j => g[i] # g[j]}}

\* Lines 508-511: BroadcastRandomly(message, K): addresses is nil; Peers.Range
\* will call back for the entries in some order.
RandomlyStart ==
    /\ rnd.pc = "idle"
    /\ \E p \in Payloads, K \in 0..MaxK, order \in RangeOrders(Peers) :
          rnd' = [pc |-> "range", payload |-> p, K |-> K, order |-> order,
                  addresses |-> << >>]
    /\ UNCHANGED <<clientVars, writeVars, acceptVars, netVars, closeVars>>

\* Lines 511-518: one callback of Peers.Range: append client.Address, then
\* stop the Range unless len(addresses) <= K*3; Range also ends when it has
\* no entry left.
RandomlyRange ==
    /\ rnd.pc = "range"
    /\ IF rnd.order = << >>
       THEN rnd' = [rnd EXCEPT !.pc = "shuffle"]
       ELSE LET collected ==
                    Append(rnd.addresses, ClientAddress(Peers[Head(rnd.order)]))
            IN rnd' = [rnd EXCEPT
                         !.addresses = collected,
                         !.order = Tail(rnd.order),
                         !.pc = IF KeepsRanging(Len(collected), rnd.K)
                                THEN "range" ELSE "shuffle"]
    /\ UNCHANGED <<clientVars, writeVars, acceptVars, netVars, closeVars>>

\* Lines 521-523: rand.Shuffle(len(addresses), swap).
RandomlyShuffle ==
    /\ rnd.pc = "shuffle"
    /\ \E q \in Shuffles(rnd.addresses) :
          rnd' = [rnd EXCEPT !.addresses = q, !.pc = "forward"]
    /\ UNCHANGED <<clientVars, writeVars, acceptVars, netVars, closeVars>>

\* Lines 525-529: n.BroadcastByAddresses(message, addresses[:K]...).
RandomlyForward ==
    /\ rnd.pc = "forward"
    /\ BroadcastByAddressesStart(CastCaller, rnd.payload,
                                 Forwarded(rnd.addresses, rnd.K))
    /\ rnd' = [rnd EXCEPT !.pc = "done"]
    /\ UNCHANGED <<netVars, closeVars>>

NextRandom ==
    \/ RandomlyStart \/ RandomlyRange \/ RandomlyShuffle \/ RandomlyForward
    \/ CastLoad \/ CastNonce \/ CastSend \/ FlushTick

SpecRandom == InitRandom /\ [][NextRandom]_vars

\* What the call handed to BroadcastByAddresses.
RandomTargets == wlist[CastCaller]

\* C19: BroadcastRandomly(P, K) collects at most 3K addresses from the
\* registry and forwards exactly min(K, number collected) of them, all
\* distinct registry addresses, to BroadcastByAddresses.
C19_RandomSamplingBound ==
    /\ rnd.pc \in {"shuffle", "forward", "done"} =>
          Len(rnd.addresses) <= 3 * rnd.K
    /\ rnd.pc = "done" =>
          /\ wop[CastCaller] = "BroadcastByAddresses"
          /\ Len(RandomTargets) =
                IF rnd.K < Len(rnd.addresses) THEN rnd.K ELSE Len(rnd.addresses)
          /\ \A i, j \in DOMAIN RandomTargets :
                i # j => RandomTargets[i] # RandomTargets[j]
          /\ \A i \in DOMAIN RandomTargets : RandomTargets[i] \in DOMAIN Peers

(***************************************************************************)
(* C20: whenever Client(A) returns a PeerClient without error, to the      *)
(* caller that installed the entry or to one that found it installed and   *)
(* waited for outgoingReady, that client is the registry's entry for A and *)
(* Connections holds a ConnState for A.  The code breaks it for the        *)
(* waiting caller: the installer closes outgoingReady on its dial-failure  *)
(* path too, after it has deleted the entry and stored no ConnState.       *)
(***************************************************************************)
C20_ReturnedClientUsable ==
    [][\A r \in returned' \ returned :
          /\ r[1] \in DOMAIN Peers'
          /\ Peers'[r[1]] = r[2]
          /\ r[1] \in DOMAIN Connections']_vars

(***************************************************************************)
(* C21: if the one-shot initialization of an accepted connection fails     *)
(* (Client(sender.address) returned an error, so `client` stays nil), then *)
(* every message of that connection, the later ones included, is dropped   *)
(* without reading the unset client, and nothing of that connection is     *)
(* submitted for dispatch.  The code breaks it: `err` belongs to the loop   *)
(* iteration whose goroutine ran the initialization, so the goroutine of   *)
(* any other message passes the test of line 394 and reads client.ID of    *)
(* the nil client at line 400.                                             *)
(***************************************************************************)
C21_FailedInitDropsAll ==
    \A x \in Conns :
        (once[x] = "done" /\ acClient[x] = NoClient) =>
            /\ crashed # "nil pointer dereference"
            /\ \A g \in Goroutines :
                  g[1] = x =>
                     /\ outcome[g] \in {"", "initError"}
                     /\ \A c \in ClientIds : \A i \in DOMAIN execQ[c] : execQ[c][i] # g

====
